---- MODULE Spec2Model ----
(***************************************************************************)
(* nocturne: a stacking Wayland compositor derived from tinywl.            *)
(* The module models the compositor's event handlers as one state machine: *)
(* every action is one handler, run to completion on the single-threaded   *)
(* event loop.  Toplevels, keyboards and surfaces are small integers;      *)
(* 0 stands for NULL.  A toplevel and its wl_surface share one id.         *)
(***************************************************************************)
EXTENDS Integers, Sequences, FiniteSets, TLC

(* ---------------- bounds of the model ---------------- *)
\* toplevels that exist at a time
MaxToplevels == 3
\* keyboards attached at a time
MaxKeyboards == 1
\* keysyms one key produces (SpecKey)
MaxSyms == 2
\* toplevels created in SpecKey
KeyWorldToplevels == 2
\* toplevels created in SpecPtr
PtrWorldToplevels == 1
\* toplevels created in SpecHit
HitWorldToplevels == 2
\* cursor positions per pixel (SpecPtr): the cursor is a double
Sub == 2
\* largest cursor coordinate, in units of 1/Sub pixel (SpecPtr)
MaxCursor == 2
\* largest distance of a scene node from the origin, in pixels (SpecPtr)
MaxNode == 2
\* interactive grabs begun in one behaviour of SpecPtr
MaxGrabs == 1
\* arguments on the command line after the program name (SpecMain)
MaxArgs == 3
\* keyboards attached at a time in SpecSeat
SeatWorldKeyboards == 2
\* toplevels created in SpecCursor
CursorWorldToplevels == 1
\* largest hotspot coordinate of a client's cursor surface (SpecCursor)
MaxHotspot == 1
\* toplevels created in SpecSeat
SeatWorldToplevels == 1
\* pointer buttons (SpecCursor)
MaxButtons == 2
\* toplevels created in SpecClick
ClickWorldToplevels == 2
\* toplevels created in SpecLinks
LinksWorldToplevels == 2
\* popups that exist at a time (SpecLinks)
MaxPopups == 2
\* toplevels created in SpecGrab
GrabWorldToplevels == 2

Toplevels == 1..MaxToplevels
Keyboards == 1..SeatWorldKeyboards
\* the keyboards of the specifications that attach MaxKeyboards of them
WorldKeyboards == 1..MaxKeyboards
Popups == 1..MaxPopups
NoToplevel == 0
NoSurface == 0
NoKeyboard == 0

(* ---------------- program constants ---------------- *)
TINYWL_CURSOR_PASSTHROUGH == "passthrough"
TINYWL_CURSOR_MOVE == "move"
TINYWL_CURSOR_RESIZE == "resize"

C_BINDINGS_COUNT == 3
BINDINGS_COUNT == 14

c_bindings ==
  << [key |-> "Escape", fptr |-> "terminate_display"],
     [key |-> "F1", fptr |-> "cycle_toplevel"],
     [key |-> "q", fptr |-> "close_focused_surface"] >>

bindings ==
  << [key |-> "Return", command |-> "kitty"],
     [key |-> "F", command |-> "firefox"],
     [key |-> "e", command |-> "kitty ranger"],
     [key |-> "v", command |-> "pavucontrol"],
     [key |-> "r", command |-> "rofi -show drun"],
     [key |-> "c", command |-> "kitty qalc"],
     [key |-> "XF86MonBrightnessUp", command |-> "light -A 10"],
     [key |-> "XF86MonBrightnessDown", command |-> "light -U 10"],
     [key |-> "XF86AudioPrev", command |-> "playerctl previous"],
     [key |-> "XF86AudioNext", command |-> "playerctl next"],
     [key |-> "XF86AudioPlay", command |-> "playerctl play_pause"],
     [key |-> "XF86AudioRaiseVolume", command |-> "pactl set-sink-volume @DEFAULT_SINK@ +10%"],
     [key |-> "XF86AudioLowerVolume", command |-> "pactl set-sink-volume @DEFAULT_SINK@ -10%"],
     [key |-> "XF86AudioMute", command |-> "pactl set-sink-mute @DEFAULT_SINK@ toggle"] >>

(* The keysyms the modelled keys produce: bound ones from both tables and *)
(* one that no table binds.                                               *)
KeySyms == {"Return", "F", "Escape", "F1", "q", "a"}

(* The keysyms of the keys pressed in the key-handling specification. *)
KeyWorldSyms == {"Return", "F", "F1", "a"}

VARIABLES
  allocated,        \* tinywl_toplevel objects that exist (calloc'ed, not freed)
  mapped,           \* toplevels whose surface is mapped
  toplevels,        \* server->toplevels, front first
  scene,            \* children of the scene root that are toplevel subtrees, bottom first
  activated,        \* toplevels whose xdg "activated" state is set
  focused_surface,  \* seat->keyboard_state.focused_surface
  keyboards,        \* server->keyboards
  seat_keyboard,    \* the seat's active keyboard (wlr_seat_get_keyboard)
  cursor_mode,      \* server->cursor_mode
  grabbed_toplevel, \* server->grabbed_toplevel
  terminated,       \* wl_display_terminate was called
  cursor,           \* server->cursor->x, ->y, in units of 1/Sub pixel
  node,             \* per toplevel: scene_tree->node.x, .y
  geometry,         \* per toplevel: xdg_toplevel->base->geometry
  grab_x,           \* server->grab_x, in units of 1/Sub pixel
  grab_y,           \* server->grab_y, in units of 1/Sub pixel
  grab_geobox,      \* server->grab_geobox
  resize_edges,     \* server->resize_edges, as the set of its edge bits
  pointer_focus,    \* seat->pointer_state.focused_surface
  grab0,            \* the cursor and the grabbed toplevel when the grab began
  fx,               \* what the last handler did (its calls into the libraries)
  cyc,              \* the current run of successive cycle_toplevel invocations
  pc,               \* where main is
  argv,             \* argv[1..argc-1]
  posixly_correct,  \* whether getopt stops at the first word (POSIXLY_CORRECT)
  startup_cmd,      \* main's startup_cmd
  exit_status,      \* the argument of exit
  stdio,            \* what process_args printed on stdout and on stderr
  objs,             \* per object server_cleanup destroys: null, live or freed
  listeners,        \* the server's listeners that are linked into a signal
  socket,           \* the socket wl_display_add_socket_auto returned
  started,          \* wlr_backend_start succeeded
  wayland_display,  \* the environment variable WAYLAND_DISPLAY
  spawned,          \* children that went on to exec the startup command
  teardown,         \* the steps of server_cleanup that have run, in order
  faults,           \* the steps of server_cleanup whose behaviour is undefined
  failed_step,      \* the call whose failure made an initialization stage return false
  cursor_image,     \* the cursor image: the xcursor theme's or a client's surface
  held,             \* the pointer buttons that are down
  mode0,            \* cursor_mode when the last button event arrived
  links,            \* the listeners of toplevels, keyboards and popups that are linked
  popups,           \* the tinywl_popup objects that exist, each with its parent
  last_destroy,     \* the statements the last destroy handler ran, in order
  children          \* what became of each fork: no child, a child that runs the
                    \* command, a child that came back from execl

(* the pointer geometry: the fields the window-management and the key-   *)
(* handling specifications leave out                                     *)
pvars == << cursor, node, geometry, grab_x, grab_y, grab_geobox,
            resize_edges, pointer_focus, grab0 >>

(* the process: main's locals, what the stages of the initialization    *)
(* create and server_cleanup destroys, and what the seat keeps beside    *)
(* the focus                                                             *)
procvars == << pc, argv, posixly_correct, startup_cmd, exit_status, stdio, objs,
               listeners, socket, started, wayland_display, spawned, teardown,
               faults, failed_step >>

(* the cursor image and the buttons *)
svars == << cursor_image, held, mode0 >>

(* the listeners embedded in toplevels, keyboards and popups *)
lvars == << links, popups, last_destroy >>

mvars == << procvars, svars, lvars, children >>

(* the window-management fields *)
wvars == << allocated, mapped, toplevels, scene, activated, focused_surface,
            keyboards, seat_keyboard, cursor_mode, grabbed_toplevel, terminated,
            fx, cyc >>

vars == << allocated, mapped, toplevels, scene, activated, focused_surface,
           keyboards, seat_keyboard, cursor_mode, grabbed_toplevel, terminated,
           fx, cyc, cursor, node, geometry, grab_x, grab_y, grab_geobox,
           resize_edges, pointer_focus, grab0, pc, argv, posixly_correct,
           startup_cmd, exit_status, stdio, objs, listeners, socket, started,
           wayland_display, spawned, teardown, faults, failed_step,
           cursor_image, held, mode0, links, popups, last_destroy, children >>

(* ---------------- helpers on sequences ---------------- *)
Range(s) == { s[i] : i \in 1..Len(s) }

Without(s, x) == SelectSeq(s, LAMBDA e : e # x)

NoDup(s) == \A i, j \in 1..Len(s) : i # j => s[i] # s[j]

Last(s) == s[Len(s)]

(* wl_list_insert(&server->toplevels, &toplevel->link): link at the head. *)
wl_list_insert(list, t) == << t >> \o list

(* a wl_list_remove that leaves the node linked *)
wl_list_remove_left_linked(list, t) == list

(* wl_list_remove(&toplevel->link): unlink every occurrence of the node. *)
wl_list_remove(list, t) == Without(list, t)

(* wlr_scene_node_raise_to_top: the node becomes the last (topmost) child. *)
wlr_scene_node_raise_to_top(sc, t) == Without(sc, t) \o << t >>


(* ---------------- the server state the utilities work on ---------------- *)
(* The fields a handler's callees read and write, with the calls the       *)
(* handler made so far: calls (focus_toplevel), cycles (cycle_toplevel),   *)
(* exec (execute_program), cacts (compositor binding functions), killed    *)
(* (kill(pid, SIGTERM)).                                                   *)
Cur ==
  [ allocated |-> allocated, mapped |-> mapped, toplevels |-> toplevels,
    scene |-> scene,
    activated |-> activated, focused_surface |-> focused_surface,
    seat_keyboard |-> seat_keyboard, terminated |-> terminated,
    calls |-> << >>, cycles |-> << >>, exec |-> << >>, cacts |-> << >>,
    killed |-> << >>, handled |-> FALSE, forwarded |-> FALSE ]

Front(list) == IF list = << >> THEN NoToplevel ELSE Head(list)

(* the topmost scene subtree among those of the mapped (enabled) toplevels *)
Topmost(sc, shown) ==
  LET vis == SelectSeq(sc, LAMBDA e : e \in shown)
  IN IF vis = << >> THEN NoToplevel ELSE Last(vis)

(* One focus_toplevel call as seen from outside: its argument, the surface *)
(* focused before, what it deactivated, raised, activated and entered, and *)
(* the front of the list and the topmost subtree when it returned.  These  *)
(* records and the ones of CycleCall observe the calls; the program keeps  *)
(* no such log.                                                            *)
FocusCall(s, t, deact, raised, act, entered, after) ==
  [ arg |-> t, prev |-> s.focused_surface, deact |-> deact, raised |-> raised,
    act |-> act, entered |-> entered,
    reordered |-> (after.toplevels # s.toplevels),
    front |-> Front(after.toplevels), top |-> Topmost(after.scene, after.mapped) ]

(* focus_toplevel without the return for the already focused surface *)
focus_toplevel_refocus(s, t) ==
  IF t = NoToplevel
  THEN [s EXCEPT !.calls = Append(@, FocusCall(s, t, 0, 0, 0, 0, s))]
  ELSE
    LET prev_surface == s.focused_surface
        prev_toplevel == IF prev_surface # NoSurface /\ prev_surface \in s.allocated
                         THEN prev_surface ELSE NoToplevel
        keyboard == s.seat_keyboard
        s1 == [s EXCEPT !.activated = IF prev_toplevel # NoToplevel
                                      THEN @ \ {prev_toplevel} ELSE @]
        s2 == [s1 EXCEPT !.scene = wlr_scene_node_raise_to_top(@, t)]
        s3 == [s2 EXCEPT !.toplevels = wl_list_insert(wl_list_remove(@, t), t)]
        s4 == [s3 EXCEPT !.activated = @ \cup {t}]
        s5 == IF keyboard # NoKeyboard
              THEN [s4 EXCEPT !.focused_surface = t]
              ELSE s4
    IN [s5 EXCEPT !.calls = Append(@,
          FocusCall(s, t, prev_toplevel, t, t,
                    IF keyboard # NoKeyboard THEN t ELSE NoSurface, s5))]

(* utils.c focus_toplevel *)
focus_toplevel(s, t) ==
  IF t = NoToplevel
  THEN [s EXCEPT !.calls = Append(@, FocusCall(s, t, 0, 0, 0, 0, s))]
  ELSE IF s.focused_surface = t
  THEN [s EXCEPT !.calls = Append(@, FocusCall(s, t, 0, 0, 0, 0, s))]
  ELSE
    LET prev_surface == s.focused_surface
        \* wlr_xdg_toplevel_try_from_wlr_surface(prev_surface) != NULL
        prev_toplevel == IF prev_surface # NoSurface /\ prev_surface \in s.allocated
                         THEN prev_surface ELSE NoToplevel
        keyboard == s.seat_keyboard
        s1 == [s EXCEPT !.activated = IF prev_toplevel # NoToplevel
                                      THEN @ \ {prev_toplevel} ELSE @]
        s2 == [s1 EXCEPT !.scene = wlr_scene_node_raise_to_top(@, t)]
        s3 == [s2 EXCEPT !.toplevels = wl_list_insert(wl_list_remove(@, t), t)]
        s4 == [s3 EXCEPT !.activated = @ \cup {t}]
        s5 == IF keyboard # NoKeyboard
              THEN [s4 EXCEPT !.focused_surface = t]
              ELSE s4
    IN [s5 EXCEPT !.calls = Append(@,
          FocusCall(s, t, prev_toplevel, t, t,
                    IF keyboard # NoKeyboard THEN t ELSE NoSurface, s5))]

(* the server fields a focus change can touch *)
Shown(s) == << s.toplevels, s.scene, s.activated, s.focused_surface >>

(* One cycle_toplevel call as seen from outside: the list and the focused  *)
(* surface before and after it.                                            *)
CycleCall(s, after) ==
  [ before |-> s.toplevels, after |-> after.toplevels,
    fbefore |-> s.focused_surface, fafter |-> after.focused_surface,
    same |-> (Shown(after) = Shown(s)) ]

(* cycle_toplevel taking the element after the front instead of the back *)
cycle_toplevel_second(s) ==
  LET s1 == IF Len(s.toplevels) < 2
            THEN s
            ELSE focus_toplevel(s, s.toplevels[2])
  IN [s1 EXCEPT !.cycles = Append(@, CycleCall(s, s1))]

(* utils.c cycle_toplevel *)
cycle_toplevel(s) ==
  LET s1 == IF Len(s.toplevels) < 2
            THEN s
            ELSE focus_toplevel(s, Last(s.toplevels))
  IN [s1 EXCEPT !.cycles = Append(@, CycleCall(s, s1))]

(* close_focused_surface that signals the client twice *)
close_focused_surface_twice(s) ==
  IF s.focused_surface # NoSurface
  THEN [s EXCEPT !.killed = Append(Append(@, s.focused_surface), s.focused_surface)]
  ELSE s

(* utils.c close_focused_surface: SIGTERM to the client of the focused surface *)
close_focused_surface(s) ==
  IF s.focused_surface # NoSurface
  THEN [s EXCEPT !.killed = Append(@, s.focused_surface)]
  ELSE s

(* terminate_display that does not stop the event loop *)
terminate_display_nothing(s) == s

(* utils.c terminate_display *)
terminate_display(s) == [s EXCEPT !.terminated = TRUE]

(* utils.c execute_program: the parent only forks; the child runs the command *)
execute_program(s, name) == [s EXCEPT !.exec = Append(@, name)]

(* reset_cursor_mode that leaves grabbed_toplevel set *)
reset_cursor_mode_keep_grab ==
  [ cursor_mode |-> TINYWL_CURSOR_PASSTHROUGH, grabbed_toplevel |-> grabbed_toplevel ]

(* cursor.c reset_cursor_mode *)
reset_cursor_mode ==
  [ cursor_mode |-> TINYWL_CURSOR_PASSTHROUGH, grabbed_toplevel |-> NoToplevel ]

(* begin_interactive that records the mode but not the toplevel *)
begin_interactive_no_grab(t, mode) ==
  [ cursor_mode |-> mode, grabbed_toplevel |-> NoToplevel ]

(* cursor.c begin_interactive *)
begin_interactive(t, mode) ==
  [ cursor_mode |-> mode, grabbed_toplevel |-> t ]

(* utils.c desktop_toplevel_at: the toplevel owning the surface under the   *)
(* cursor, or NULL.  Only mapped surfaces are enabled in the scene; which   *)
(* one lies under the cursor is decided by positions the model leaves open. *)
desktop_toplevel_at == {NoToplevel} \cup mapped


(* ---------------- keyboard.c ---------------- *)
MODKEY == "alt"

Modifiers == {"alt", "shift"}

Min(S) == CHOOSE x \in S : \A y \in S : x <= y

(* the compositor binding function a table entry points to *)
CallBinding(s, fptr) ==
  LET s1 == [s EXCEPT !.cacts = Append(@, fptr)]
  IN CASE fptr = "terminate_display" -> terminate_display(s1)
       [] fptr = "cycle_toplevel" -> cycle_toplevel(s1)
       [] fptr = "close_focused_surface" -> close_focused_surface(s1)

(* keyboard.c handle_keybinding: the launcher table, then the compositor  *)
(* table; in each the first entry whose key is sym runs.  The result's    *)
(* handled field is the function's return value match_found.              *)
handle_keybinding(s, sym) ==
  LET hits == { i \in 1..BINDINGS_COUNT : bindings[i].key = sym }
      s1 == IF hits # {}
            THEN execute_program(s, bindings[Min(hits)].command)
            ELSE s
      chits == { i \in 1..C_BINDINGS_COUNT : c_bindings[i].key = sym }
      s2 == IF chits # {}
            THEN CallBinding(s1, c_bindings[Min(chits)].fptr)
            ELSE s1
  IN [s2 EXCEPT !.handled = (hits # {} \/ chits # {})]

(* the loop of keyboard_handle_key over the keysyms of the key *)
RECURSIVE TryKeysyms(_, _, _)
TryKeysyms(s, syms, i) ==
  IF i > Len(syms)
  THEN s
  ELSE TryKeysyms(handle_keybinding(s, syms[i]), syms, i + 1)

(* keyboard_handle_key that tries the bindings on a release too *)
keyboard_handle_key_any_state(s, kb, syms, pressed, mods) ==
  LET s1 == IF MODKEY \in mods
            THEN TryKeysyms(s, syms, 1)
            ELSE s
  IN IF ~s1.handled
     THEN [s1 EXCEPT !.seat_keyboard = kb, !.forwarded = TRUE]
     ELSE s1

(* keyboard.c keyboard_handle_key *)
keyboard_handle_key(s, kb, syms, pressed, mods) ==
  LET s1 == IF MODKEY \in mods /\ pressed
            THEN TryKeysyms(s, syms, 1)
            ELSE s
  IN IF ~s1.handled
     THEN [s1 EXCEPT !.seat_keyboard = kb, !.forwarded = TRUE]
     ELSE s1

(* ---------------- the pointer geometry ---------------- *)
(* Cursor coordinates and grab_x, grab_y are doubles: they are kept in    *)
(* units of 1/Sub pixel.  Scene positions and boxes are ints, in pixels.  *)
ToDouble(i) == i * Sub

(* the conversion of a double to int: the fraction is discarded *)
ToInt(d) == IF d >= 0 THEN d \div Sub ELSE -((-d) \div Sub)

Box(x, y, w, h) == [x |-> x, y |-> y, width |-> w, height |-> h]

(* the geometry of an xdg surface that has no buffer yet, and the grab_geobox *)
(* of the zero-initialised server                                             *)
ZeroBox == Box(0, 0, 0, 0)

(* the window geometries the clients commit with a buffer attached *)
ClientGeometries == { Box(0, 0, 2, 1), Box(1, 0, 1, 2) }

WLR_EDGE_TOP == "top"
WLR_EDGE_BOTTOM == "bottom"
WLR_EDGE_LEFT == "left"
WLR_EDGE_RIGHT == "right"

(* the edge masks of a resize request *)
EdgeMasks == SUBSET {WLR_EDGE_TOP, WLR_EDGE_BOTTOM, WLR_EDGE_LEFT, WLR_EDGE_RIGHT}

border_width == 2

(* border rects whose bottom and right one lie inside the geometry *)
CommitBorders_inside(geo_box) ==
  [ top |-> Box(geo_box.x, geo_box.y - border_width, geo_box.width, border_width),
    bottom |-> Box(geo_box.x, geo_box.y + geo_box.height - border_width,
                   geo_box.width, border_width),
    left |-> Box(geo_box.x - border_width, geo_box.y, border_width, geo_box.height),
    right |-> Box(geo_box.x + geo_box.width - border_width, geo_box.y,
                  border_width, geo_box.height) ]

(* xdg_toplevel_commit: the size and the position the four border rects  *)
(* are set to for the geometry geo_box                                   *)
CommitBorders(geo_box) ==
  [ top |-> Box(geo_box.x, geo_box.y - border_width, geo_box.width, border_width),
    bottom |-> Box(geo_box.x, geo_box.y + geo_box.height, geo_box.width, border_width),
    left |-> Box(geo_box.x - border_width, geo_box.y, border_width, geo_box.height),
    right |-> Box(geo_box.x + geo_box.width, geo_box.y, border_width, geo_box.height) ]

(* the cursor and the toplevel at the moment a grab began; the program    *)
(* keeps no such record                                                   *)
NoGrab0 ==
  [ n |-> 0, t |-> NoToplevel, off |-> [x |-> 0, y |-> 0],
    cursor |-> [x |-> 0, y |-> 0], origin |-> [x |-> 0, y |-> 0],
    geo |-> ZeroBox ]

(* begin_interactive that takes the geometry origin as the grabbed border *)
(* corner whatever the edges are                                          *)
begin_interactive_grab_origin(t, mode, edges) ==
  IF mode = TINYWL_CURSOR_MOVE
  THEN [ grab_x |-> cursor.x - ToDouble(node[t].x),
         grab_y |-> cursor.y - ToDouble(node[t].y),
         grab_geobox |-> grab_geobox,
         resize_edges |-> resize_edges ]
  ELSE LET geo_box == geometry[t]
           border_x == ToDouble(node[t].x + geo_box.x)
           border_y == ToDouble(node[t].y + geo_box.y)
       IN [ grab_x |-> cursor.x - border_x,
            grab_y |-> cursor.y - border_y,
            grab_geobox |-> Box(geo_box.x + node[t].x, geo_box.y + node[t].y,
                                geo_box.width, geo_box.height),
            resize_edges |-> edges ]

(* cursor.c begin_interactive, the grab bookkeeping below the mode *)
begin_interactive_grab(t, mode, edges) ==
  IF mode = TINYWL_CURSOR_MOVE
  THEN [ grab_x |-> cursor.x - ToDouble(node[t].x),
         grab_y |-> cursor.y - ToDouble(node[t].y),
         grab_geobox |-> grab_geobox,
         resize_edges |-> resize_edges ]
  ELSE LET geo_box == geometry[t]
           border_x == ToDouble((node[t].x + geo_box.x) +
                         (IF WLR_EDGE_RIGHT \in edges THEN geo_box.width ELSE 0))
           border_y == ToDouble((node[t].y + geo_box.y) +
                         (IF WLR_EDGE_BOTTOM \in edges THEN geo_box.height ELSE 0))
       IN [ grab_x |-> cursor.x - border_x,
            grab_y |-> cursor.y - border_y,
            grab_geobox |-> Box(geo_box.x + node[t].x, geo_box.y + node[t].y,
                                geo_box.width, geo_box.height),
            resize_edges |-> edges ]

(* process_cursor_move that forgets the grab offset *)
process_cursor_move_no_grab(c) ==
  [ x |-> ToInt(c.x), y |-> ToInt(c.y) ]

(* cursor.c process_cursor_move with the cursor at c: the position the    *)
(* grabbed toplevel's scene node is set to                                *)
process_cursor_move(c) ==
  [ x |-> ToInt(c.x - grab_x), y |-> ToInt(c.y - grab_y) ]

(* process_cursor_resize without the snap of the moving edge past the     *)
(* opposite one                                                           *)
process_cursor_resize_no_snap(c) ==
  LET border_x == c.x - grab_x
      border_y == c.y - grab_y
      left0 == grab_geobox.x
      right0 == grab_geobox.x + grab_geobox.width
      top0 == grab_geobox.y
      bottom0 == grab_geobox.y + grab_geobox.height
      new_top == IF WLR_EDGE_TOP \in resize_edges THEN ToInt(border_y) ELSE top0
      new_bottom == IF WLR_EDGE_TOP \notin resize_edges /\ WLR_EDGE_BOTTOM \in resize_edges
                    THEN ToInt(border_y) ELSE bottom0
      new_left == IF WLR_EDGE_LEFT \in resize_edges THEN ToInt(border_x) ELSE left0
      new_right == IF WLR_EDGE_LEFT \notin resize_edges /\ WLR_EDGE_RIGHT \in resize_edges
                   THEN ToInt(border_x) ELSE right0
      geo_box == geometry[grabbed_toplevel]
  IN [ pos |-> [x |-> new_left - geo_box.x, y |-> new_top - geo_box.y],
       size |-> << new_right - new_left, new_bottom - new_top >> ]

(* process_cursor_resize that lets the bottom edge go before the top one *)
(* and the right edge before the left one                                *)
process_cursor_resize_bottom_first(c) ==
  LET border_x == c.x - grab_x
      border_y == c.y - grab_y
      left0 == grab_geobox.x
      right0 == grab_geobox.x + grab_geobox.width
      top0 == grab_geobox.y
      bottom0 == grab_geobox.y + grab_geobox.height
      new_bottom == IF WLR_EDGE_BOTTOM \in resize_edges
                    THEN IF ToInt(border_y) <= top0 THEN top0 + 1 ELSE ToInt(border_y)
                    ELSE bottom0
      new_top == IF WLR_EDGE_BOTTOM \notin resize_edges /\ WLR_EDGE_TOP \in resize_edges
                 THEN IF ToInt(border_y) >= bottom0 THEN bottom0 - 1 ELSE ToInt(border_y)
                 ELSE top0
      new_right == IF WLR_EDGE_RIGHT \in resize_edges
                   THEN IF ToInt(border_x) <= left0 THEN left0 + 1 ELSE ToInt(border_x)
                   ELSE right0
      new_left == IF WLR_EDGE_RIGHT \notin resize_edges /\ WLR_EDGE_LEFT \in resize_edges
                  THEN IF ToInt(border_x) >= right0 THEN right0 - 1 ELSE ToInt(border_x)
                  ELSE left0
      geo_box == geometry[grabbed_toplevel]
  IN [ pos |-> [x |-> new_left - geo_box.x, y |-> new_top - geo_box.y],
       size |-> << new_right - new_left, new_bottom - new_top >> ]

(* cursor.c process_cursor_resize with the cursor at c: the position the  *)
(* scene node is set to and the size passed to wlr_xdg_toplevel_set_size  *)
process_cursor_resize(c) ==
  LET border_x == c.x - grab_x
      border_y == c.y - grab_y
      left0 == grab_geobox.x
      right0 == grab_geobox.x + grab_geobox.width
      top0 == grab_geobox.y
      bottom0 == grab_geobox.y + grab_geobox.height
      new_top == IF WLR_EDGE_TOP \in resize_edges
                 THEN IF ToInt(border_y) >= bottom0 THEN bottom0 - 1 ELSE ToInt(border_y)
                 ELSE top0
      new_bottom == IF WLR_EDGE_TOP \notin resize_edges /\ WLR_EDGE_BOTTOM \in resize_edges
                    THEN IF ToInt(border_y) <= top0 THEN top0 + 1 ELSE ToInt(border_y)
                    ELSE bottom0
      new_left == IF WLR_EDGE_LEFT \in resize_edges
                  THEN IF ToInt(border_x) >= right0 THEN right0 - 1 ELSE ToInt(border_x)
                  ELSE left0
      new_right == IF WLR_EDGE_LEFT \notin resize_edges /\ WLR_EDGE_RIGHT \in resize_edges
                   THEN IF ToInt(border_x) <= left0 THEN left0 + 1 ELSE ToInt(border_x)
                   ELSE right0
      geo_box == geometry[grabbed_toplevel]
  IN [ pos |-> [x |-> new_left - geo_box.x, y |-> new_top - geo_box.y],
       size |-> << new_right - new_left, new_bottom - new_top >> ]


(* ---------------- what a handler did ---------------- *)
NoFx ==
  [ op |-> "init", t |-> NoToplevel, kb |-> NoKeyboard, pressed |-> FALSE,
    mods |-> {}, syms |-> << >>, grab0 |-> NoToplevel, calls |-> << >>,
    cycles |-> << >>, exec |-> << >>, cacts |-> << >>, killed |-> << >>,
    forwarded |-> FALSE, size |-> << >>, surface |-> FALSE,
    borders |-> << >>, pfocus0 |-> NoSurface ]

Fx(op, t) == [NoFx EXCEPT !.op = op, !.t = t]

FxOf(op, t, s) ==
  [NoFx EXCEPT !.op = op, !.t = t, !.calls = s.calls, !.cycles = s.cycles,
               !.exec = s.exec,
               !.cacts = s.cacts, !.killed = s.killed, !.forwarded = s.forwarded]

(* cyc: n successive cycle_toplevel invocations so far in the current run; *)
(* f0 and front0 are the focused surface and the front of the list when    *)
(* the run began.                                                          *)
NoCyc == [n |-> 0, f0 |-> NoSurface, front0 |-> NoToplevel]

(* the server fields a utility may have written *)
Commit(s) ==
  /\ toplevels' = s.toplevels
  /\ scene' = s.scene
  /\ activated' = s.activated
  /\ focused_surface' = s.focused_surface
  /\ seat_keyboard' = s.seat_keyboard
  /\ terminated' = s.terminated

(* ---------------- the process: main.c, server.c ---------------- *)
EXIT_SUCCESS == 0
EXIT_FAILURE == 1
\* exit has not been called
NoStatus == -1
\* startup_cmd == NULL
NoCmd == "NULL"
NoSocket == "NULL"
NoStep == "none"

(* what server_cleanup destroys *)
Objects == {"display", "backend", "renderer", "allocator", "scene", "cursor",
            "cursor_mgr"}

(* the listeners of struct tinywl_server, in the order server_cleanup *)
(* unlinks them                                                       *)
UnlinkOrder ==
  << "new_xdg_toplevel", "new_xdg_popup", "cursor_motion",
     "cursor_motion_absolute", "cursor_button", "cursor_axis", "cursor_frame",
     "new_input", "request_cursor", "request_set_selection", "new_output" >>

(* the order server_cleanup destroys the objects in *)
DestroyOrder ==
  << "scene", "cursor_mgr", "cursor", "allocator", "renderer", "backend",
     "display" >>

(* server_cleanup that destroys the backend before the renderer *)
CleanupSteps_backend_first ==
  << [op |-> "destroy_clients", arg |-> "display"] >>
  \o [i \in 1..Len(UnlinkOrder) |-> [op |-> "unlink", arg |-> UnlinkOrder[i]]]
  \o [i \in 1..Len(DestroyOrder) |->
        [op |-> "destroy",
         arg |-> IF DestroyOrder[i] = "renderer" THEN "backend"
                 ELSE IF DestroyOrder[i] = "backend" THEN "renderer"
                 ELSE DestroyOrder[i]]]

(* server.c server_cleanup, step by step *)
CleanupSteps ==
  << [op |-> "destroy_clients", arg |-> "display"] >>
  \o [i \in 1..Len(UnlinkOrder) |-> [op |-> "unlink", arg |-> UnlinkOrder[i]]]
  \o [i \in 1..Len(DestroyOrder) |-> [op |-> "destroy", arg |-> DestroyOrder[i]]]

(* the listeners setup_rendering and setup_shell_and_input register *)
RenderingListeners == {"new_output"}
ShellInputListeners ==
  {"new_xdg_toplevel", "new_xdg_popup", "cursor_motion", "cursor_motion_absolute",
   "cursor_button", "cursor_axis", "cursor_frame", "new_input", "request_cursor",
   "request_set_selection"}

(* the object whose signal a listener is linked into; the xdg shell and *)
(* the seat are globals of the display and go with it                   *)
Owner(l) ==
  IF l \in {"new_input", "new_output"} THEN "backend"
  ELSE IF l \in {"cursor_motion", "cursor_motion_absolute", "cursor_button",
                 "cursor_axis", "cursor_frame"} THEN "cursor"
  ELSE "display"

NoStdio == [out |-> << >>, err |-> << >>]

(* the cursor image of the xcursor theme *)
ThemeCursor == [client |-> 0, hotspot |-> 0]

(* no destroy handler has run *)
NoDestroy == [kind |-> "none", id |-> 0, steps |-> << >>, dangling |-> {}]

(* struct tinywl_server server = {0} *)
ServerInit ==
  /\ allocated = {}
  /\ mapped = {}
  /\ toplevels = << >>
  /\ scene = << >>
  /\ activated = {}
  /\ focused_surface = NoSurface
  /\ keyboards = {}
  /\ seat_keyboard = NoKeyboard
  /\ cursor_mode = TINYWL_CURSOR_PASSTHROUGH
  /\ grabbed_toplevel = NoToplevel
  /\ terminated = FALSE
  /\ fx = NoFx
  /\ cyc = NoCyc
  /\ cursor = [x |-> 0, y |-> 0]
  /\ node = [t \in Toplevels |-> [x |-> 0, y |-> 0]]
  /\ geometry = [t \in Toplevels |-> ZeroBox]
  /\ grab_x = 0
  /\ grab_y = 0
  /\ grab_geobox = ZeroBox
  /\ resize_edges = {}
  /\ pointer_focus = NoSurface
  /\ grab0 = NoGrab0
  /\ cursor_image = ThemeCursor
  /\ held = {}
  /\ mode0 = TINYWL_CURSOR_PASSTHROUGH
  /\ links = {}
  /\ popups = {}
  /\ last_destroy = NoDestroy
  /\ children = {}

(* main has entered wl_display_run: the four stages succeeded, no *)
(* argument was given                                             *)
LoopEntered ==
  /\ pc = "run"
  /\ argv = << >>
  /\ posixly_correct = FALSE
  /\ startup_cmd = NoCmd
  /\ exit_status = NoStatus
  /\ stdio = NoStdio
  /\ objs = [o \in Objects |-> "live"]
  /\ listeners = RenderingListeners \cup ShellInputListeners
  /\ socket = "wayland-0"
  /\ started = TRUE
  /\ wayland_display = "wayland-0"
  /\ spawned = 0
  /\ teardown = << >>
  /\ faults = << >>
  /\ failed_step = NoStep

Init == ServerInit /\ LoopEntered

(* ---------------- toplevel.c ---------------- *)
(* server_new_xdg_toplevel: the toplevel is allocated and its scene subtree *)
(* is created as the last child of the root; it is not linked in the list. *)
server_new_xdg_toplevel(t) ==
  /\ ~terminated
  /\ t \in Toplevels \ allocated
  /\ allocated' = allocated \cup {t}
  /\ scene' = Append(scene, t)
  /\ fx' = Fx("new_toplevel", t)
  /\ cyc' = NoCyc
  /\ UNCHANGED << mapped, toplevels, activated, focused_surface, keyboards,
                  seat_keyboard, cursor_mode, grabbed_toplevel, terminated >>

(* xdg_toplevel_map; the surface's map event fires only while it is unmapped *)
xdg_toplevel_map(t) ==
  /\ ~terminated
  /\ t \in allocated \ mapped
  /\ mapped' = mapped \cup {t}
  /\ LET s1 == [Cur EXCEPT !.mapped = @ \cup {t},
                           !.toplevels = wl_list_insert(@, t)]
         s2 == focus_toplevel(s1, t)
     IN /\ Commit(s2)
        /\ fx' = FxOf("map", t, s2)
  /\ cyc' = NoCyc
  /\ UNCHANGED << allocated, keyboards, cursor_mode, grabbed_toplevel >>

(* xdg_toplevel_unmap that hands the focus to the next toplevel of the list *)
xdg_toplevel_unmap_refocus(t) ==
  /\ ~terminated
  /\ t \in mapped
  /\ mapped' = mapped \ {t}
  /\ LET g == IF t = grabbed_toplevel
              THEN reset_cursor_mode
              ELSE [cursor_mode |-> cursor_mode, grabbed_toplevel |-> grabbed_toplevel]
     IN /\ cursor_mode' = g.cursor_mode
        /\ grabbed_toplevel' = g.grabbed_toplevel
  /\ LET s1 == [Cur EXCEPT !.mapped = @ \ {t},
                           !.toplevels = wl_list_remove(@, t)]
         s2 == focus_toplevel(s1, Front(s1.toplevels))
     IN Commit(s2)
  /\ fx' = [Fx("unmap", t) EXCEPT !.grab0 = grabbed_toplevel]
  /\ cyc' = NoCyc
  /\ UNCHANGED << allocated, keyboards >>

(* xdg_toplevel_unmap; the unmap event fires only while the surface is      *)
(* mapped.  fx.grab0 keeps the toplevel that was grabbed when it fired.     *)
xdg_toplevel_unmap(t) ==
  /\ ~terminated
  /\ t \in mapped
  /\ mapped' = mapped \ {t}
  /\ LET g == IF t = grabbed_toplevel
              THEN reset_cursor_mode
              ELSE [cursor_mode |-> cursor_mode, grabbed_toplevel |-> grabbed_toplevel]
     IN /\ cursor_mode' = g.cursor_mode
        /\ grabbed_toplevel' = g.grabbed_toplevel
  /\ toplevels' = wl_list_remove(toplevels, t)
  /\ fx' = [Fx("unmap", t) EXCEPT !.grab0 = grabbed_toplevel]
  /\ cyc' = NoCyc
  /\ UNCHANGED << allocated, scene, activated, focused_surface, keyboards,
                  seat_keyboard, terminated >>

(* xdg_toplevel_destroy: the listeners are unlinked and the toplevel freed. *)
(* The client destroys the window as a whole: the scene subtree goes with   *)
(* the xdg surface and the seat drops its focus when the wl_surface is      *)
(* destroyed.  A mapped surface is unmapped (xdg_toplevel_unmap) before.    *)
(* server->grabbed_toplevel is not touched.                                 *)
xdg_toplevel_destroy(t) ==
  /\ ~terminated
  /\ t \in allocated \ mapped
  /\ allocated' = allocated \ {t}
  /\ scene' = Without(scene, t)
  /\ activated' = activated \ {t}
  /\ focused_surface' = IF focused_surface = t THEN NoSurface ELSE focused_surface
  /\ fx' = Fx("destroy", t)
  /\ cyc' = NoCyc
  /\ UNCHANGED << mapped, toplevels, keyboards, seat_keyboard, cursor_mode,
                  grabbed_toplevel, terminated >>

(* xdg_toplevel_request_move *)
xdg_toplevel_request_move(t) ==
  /\ ~terminated
  /\ t \in allocated
  /\ LET g == begin_interactive(t, TINYWL_CURSOR_MOVE)
     IN /\ cursor_mode' = g.cursor_mode
        /\ grabbed_toplevel' = g.grabbed_toplevel
  /\ fx' = Fx("request_move", t)
  /\ cyc' = NoCyc
  /\ UNCHANGED << allocated, mapped, toplevels, scene, activated, focused_surface,
                  keyboards, seat_keyboard, terminated >>

(* xdg_toplevel_request_resize *)
xdg_toplevel_request_resize(t) ==
  /\ ~terminated
  /\ t \in allocated
  /\ LET g == begin_interactive(t, TINYWL_CURSOR_RESIZE)
     IN /\ cursor_mode' = g.cursor_mode
        /\ grabbed_toplevel' = g.grabbed_toplevel
  /\ fx' = Fx("request_resize", t)
  /\ cyc' = NoCyc
  /\ UNCHANGED << allocated, mapped, toplevels, scene, activated, focused_surface,
                  keyboards, seat_keyboard, terminated >>

(* ---------------- cursor.c ---------------- *)
(* server_cursor_button that does not call reset_cursor_mode on release *)
server_cursor_button_no_reset(pressed, hit) ==
  /\ ~terminated
  /\ hit \in desktop_toplevel_at
  /\ IF ~pressed
     THEN /\ hit = NoToplevel
          /\ fx' = [Fx("button", NoToplevel) EXCEPT !.pressed = FALSE]
          /\ UNCHANGED << toplevels, scene, activated, focused_surface,
                          seat_keyboard, terminated, cursor_mode, grabbed_toplevel >>
     ELSE LET s1 == focus_toplevel(Cur, hit)
          IN /\ Commit(s1)
             /\ fx' = [FxOf("button", hit, s1) EXCEPT !.pressed = TRUE]
             /\ UNCHANGED << cursor_mode, grabbed_toplevel >>
  /\ cyc' = NoCyc
  /\ UNCHANGED << allocated, mapped, keyboards >>

(* server_cursor_button: a release leaves the interactive mode, a press    *)
(* focuses the toplevel under the cursor.                                  *)
server_cursor_button(pressed, hit) ==
  /\ ~terminated
  /\ hit \in desktop_toplevel_at
  /\ IF ~pressed
     THEN /\ hit = NoToplevel
          /\ cursor_mode' = reset_cursor_mode.cursor_mode
          /\ grabbed_toplevel' = reset_cursor_mode.grabbed_toplevel
          /\ fx' = [Fx("button", NoToplevel) EXCEPT !.pressed = FALSE]
          /\ UNCHANGED << toplevels, scene, activated, focused_surface,
                          seat_keyboard, terminated >>
     ELSE LET s1 == focus_toplevel(Cur, hit)
          IN /\ Commit(s1)
             /\ fx' = [FxOf("button", hit, s1) EXCEPT !.pressed = TRUE]
             /\ UNCHANGED << cursor_mode, grabbed_toplevel >>
  /\ cyc' = NoCyc
  /\ UNCHANGED << allocated, mapped, keyboards >>

(* server_cursor_motion / server_cursor_motion_absolute: the cursor moves   *)
(* and process_cursor_motion repositions or resizes the grabbed toplevel or *)
(* updates the pointer focus.  None of the handlers assigns a field this    *)
(* module keeps; a grab of a freed toplevel is left out here.               *)
server_cursor_motion ==
  /\ ~terminated
  /\ cursor_mode = TINYWL_CURSOR_PASSTHROUGH \/ grabbed_toplevel \in allocated
  /\ fx' = Fx("motion", NoToplevel)
  /\ cyc' = NoCyc
  /\ UNCHANGED << allocated, mapped, toplevels, scene, activated, focused_surface,
                  keyboards, seat_keyboard, cursor_mode, grabbed_toplevel,
                  terminated >>

(* the dereference of server->grabbed_toplevel in process_cursor_move and *)
(* process_cursor_resize *)
GrabDeref == [op |-> "motion", arg |-> "grabbed_toplevel"]

(* server_cursor_motion while the grab is on a toplevel that was freed:   *)
(* process_cursor_move / process_cursor_resize read toplevel->scene_tree  *)
(* and toplevel->xdg_toplevel from freed memory.  The behaviour is        *)
(* undefined: the process dies, or the reads and the calls go through on  *)
(* what the memory holds and the compositor carries on.                   *)
server_cursor_motion_freed_grab(crash) ==
  /\ ~terminated
  /\ pc = "run"
  /\ cursor_mode # TINYWL_CURSOR_PASSTHROUGH
  /\ grabbed_toplevel \notin allocated
  /\ faults' = IF \E i \in 1..Len(faults) : faults[i].step = GrabDeref THEN faults
               ELSE Append(faults, [step |-> GrabDeref, fault |-> "use after free"])
  /\ pc' = IF crash THEN "crashed" ELSE pc
  /\ fx' = Fx("motion", grabbed_toplevel)
  /\ cyc' = NoCyc
  /\ UNCHANGED << allocated, mapped, toplevels, scene, activated, focused_surface,
                  keyboards, seat_keyboard, cursor_mode, grabbed_toplevel,
                  terminated, pvars, argv, posixly_correct, startup_cmd,
                  exit_status, stdio, objs, listeners, socket, started,
                  wayland_display, spawned, teardown, failed_step, svars, lvars,
                  children >>

(* ---------------- the handlers with the pointer geometry ---------------- *)
(* The handlers above say what an event does to the window management     *)
(* state; the ones below add what it does to the cursor, the scene        *)
(* positions, the geometries, the borders and the grab.                   *)
Still == UNCHANGED << pvars, mvars >>

(* the handlers of the event loop leave the process as it is *)
Rest == UNCHANGED mvars

CursorCoords == 0..MaxCursor

NodeOk(p) == p.x \in -MaxNode..MaxNode /\ p.y \in -MaxNode..MaxNode

(* server_new_xdg_toplevel: the scene tree is created at the origin *)
server_new_xdg_toplevel_full(t) ==
  /\ server_new_xdg_toplevel(t)
  /\ node' = [node EXCEPT ![t] = [x |-> 0, y |-> 0]]
  /\ geometry' = [geometry EXCEPT ![t] = ZeroBox]
  /\ UNCHANGED << cursor, grab_x, grab_y, grab_geobox, resize_edges,
                  pointer_focus, grab0 >>

(* xdg_toplevel_map: the commit that attaches the first buffer; the xdg   *)
(* surface has computed its geometry g when the map event fires           *)
xdg_toplevel_map_full(t, g) ==
  /\ xdg_toplevel_map(t)
  /\ g \in ClientGeometries
  /\ geometry' = [geometry EXCEPT ![t] = g]
  /\ UNCHANGED << cursor, node, grab_x, grab_y, grab_geobox,
                  resize_edges, pointer_focus, grab0 >>

xdg_toplevel_unmap_full(t) ==
  /\ xdg_toplevel_unmap(t)
  /\ Still

(* xdg_toplevel_commit: the surface commits with geometry g; the initial  *)
(* commit of an unmapped surface is answered with a configure of size 0,0 *)
xdg_toplevel_commit(t, g, initial_commit) ==
  /\ ~terminated
  /\ t \in allocated
  /\ IF t \in mapped
     THEN g \in ClientGeometries /\ ~initial_commit
     ELSE g = geometry[t]
  /\ geometry' = [geometry EXCEPT ![t] = g]
  /\ fx' = [Fx("commit", t) EXCEPT !.size = IF initial_commit THEN << 0, 0 >> ELSE << >>,
                                   !.borders = << CommitBorders(g) >>]
  /\ cyc' = NoCyc
  /\ UNCHANGED << allocated, mapped, toplevels, scene, activated, focused_surface,
                  keyboards, seat_keyboard, cursor_mode, grabbed_toplevel,
                  terminated, cursor, node, grab_x, grab_y, grab_geobox,
                  resize_edges, pointer_focus, grab0 >>

(* begin_interactive below the assignment of mode and toplevel *)
BeginGrab(t, mode, edges) ==
  /\ grab0.n < MaxGrabs
  /\ LET g == begin_interactive_grab(t, mode, edges)
     IN /\ grab_x' = g.grab_x
        /\ grab_y' = g.grab_y
        /\ grab_geobox' = g.grab_geobox
        /\ resize_edges' = g.resize_edges
  /\ grab0' = IF mode = TINYWL_CURSOR_MOVE
              THEN [NoGrab0 EXCEPT !.n = grab0.n + 1, !.t = t,
                      !.off = [x |-> cursor.x - ToDouble(node[t].x),
                               y |-> cursor.y - ToDouble(node[t].y)]]
              ELSE [NoGrab0 EXCEPT !.n = grab0.n + 1, !.t = t, !.cursor = cursor,
                      !.origin = node[t], !.geo = geometry[t]]
  /\ UNCHANGED << cursor, node, geometry, pointer_focus >>

xdg_toplevel_request_move_full(t) ==
  /\ xdg_toplevel_request_move(t)
  /\ BeginGrab(t, TINYWL_CURSOR_MOVE, {})

xdg_toplevel_request_resize_full(t, edges) ==
  /\ xdg_toplevel_request_resize(t)
  /\ BeginGrab(t, TINYWL_CURSOR_RESIZE, edges)

(* xdg_toplevel_destroy; the seat drops the pointer focus of a surface    *)
(* that is destroyed                                                      *)
xdg_toplevel_destroy_full(t) ==
  /\ xdg_toplevel_destroy(t)
  /\ pointer_focus' = IF pointer_focus = t THEN NoSurface ELSE pointer_focus
  /\ UNCHANGED << cursor, node, geometry, grab_x, grab_y, grab_geobox,
                  resize_edges, grab0 >>

server_cursor_button_full(pressed, hit) ==
  /\ server_cursor_button(pressed, hit)
  /\ UNCHANGED pvars

(* what wlr_scene_node_at finds under the cursor: nothing, a border rect  *)
(* or the surface of a mapped toplevel                                    *)
HitKinds == {"none", "rect", "surface"}

(* the pointer focus process_cursor_motion leaves when it never clears it *)
PassthroughFocus_keep(kind, ht) ==
  IF kind = "surface" THEN ht ELSE pointer_focus

(* process_cursor_motion in passthrough mode: wlr_seat_pointer_notify_enter *)
(* on the surface under the cursor, wlr_seat_pointer_clear_focus if none    *)
PassthroughFocus(kind, ht) ==
  IF kind = "surface" THEN ht ELSE NoSurface

(* The body of process_cursor_motion for cursor mode mode, once the cursor *)
(* is at c; (kind, ht) is what lies under the cursor there, and fx.surface *)
(* whether that is a surface, fx.pfocus0 the pointer focus before.  A grab *)
(* of a freed toplevel is left out.                                        *)
MotionInMode(mode, c, kind, ht) ==
  /\ ~terminated
  /\ cursor_mode = TINYWL_CURSOR_PASSTHROUGH \/ grabbed_toplevel \in allocated
  /\ kind \in HitKinds
  /\ IF kind = "surface" THEN ht \in mapped ELSE ht = NoToplevel
  /\ cursor' = c
  /\ IF mode = TINYWL_CURSOR_MOVE
     THEN LET p == process_cursor_move(c)
          IN /\ NodeOk(p)
             /\ node' = [node EXCEPT ![grabbed_toplevel] = p]
             /\ fx' = [Fx("motion", grabbed_toplevel) EXCEPT !.surface = (kind = "surface"),
                                                            !.pfocus0 = pointer_focus]
             /\ UNCHANGED pointer_focus
     ELSE IF mode = TINYWL_CURSOR_RESIZE
     THEN LET r == process_cursor_resize(c)
          IN /\ NodeOk(r.pos)
             /\ node' = [node EXCEPT ![grabbed_toplevel] = r.pos]
             /\ fx' = [Fx("motion", grabbed_toplevel) EXCEPT !.surface = (kind = "surface"),
                                                            !.pfocus0 = pointer_focus,
                                                            !.size = r.size]
             /\ UNCHANGED pointer_focus
     ELSE /\ pointer_focus' = PassthroughFocus(kind, ht)
          /\ fx' = [Fx("motion", ht) EXCEPT !.surface = (kind = "surface"),
                                            !.pfocus0 = pointer_focus]
          /\ UNCHANGED node
  /\ cyc' = NoCyc
  /\ UNCHANGED << allocated, mapped, toplevels, scene, activated, focused_surface,
                  keyboards, seat_keyboard, cursor_mode, grabbed_toplevel,
                  terminated, geometry, grab_x, grab_y, grab_geobox,
                  resize_edges, grab0 >>

(* process_cursor_motion that resizes in move mode too *)
process_cursor_motion_resize_in_move(c, kind, ht) ==
  MotionInMode(IF cursor_mode = TINYWL_CURSOR_MOVE
               THEN TINYWL_CURSOR_RESIZE ELSE cursor_mode, c, kind, ht)

(* cursor.c process_cursor_motion *)
process_cursor_motion(c, kind, ht) == MotionInMode(cursor_mode, c, kind, ht)

Clamp(v) == IF v < 0 THEN 0 ELSE IF v > MaxCursor THEN MaxCursor ELSE v

(* server_cursor_motion: wlr_cursor_move by the delta, kept inside the    *)
(* output layout                                                          *)
server_cursor_motion_full(dx, dy, kind, ht) ==
  process_cursor_motion([x |-> Clamp(cursor.x + dx), y |-> Clamp(cursor.y + dy)],
                        kind, ht)

(* server_cursor_motion_absolute: wlr_cursor_warp_absolute to (x, y) *)
server_cursor_motion_absolute(x, y, kind, ht) ==
  process_cursor_motion([x |-> x, y |-> y], kind, ht)


(* ---------------- the hit test ---------------- *)
(* the box of the surface buffer in the scene tree of its toplevel: the   *)
(* buffer starts at the tree's origin and reaches to the far corner of    *)
(* the window geometry g, which is a sub-box of the surface               *)
SurfaceBox(g) == Box(0, 0, g.x + g.width, g.y + g.height)

(* wlr_box_contains_point for the point c, in units of 1/Sub pixel *)
Contains(b, c) ==
  /\ c.x >= ToDouble(b.x) /\ c.x < ToDouble(b.x + b.width)
  /\ c.y >= ToDouble(b.y) /\ c.y < ToDouble(b.y + b.height)

(* The children of toplevel t's scene tree, bottom first: the surface     *)
(* tree wlr_scene_xdg_surface_create made, then the four border rects in  *)
(* the order server_new_xdg_toplevel created them, where the last commit  *)
(* put them.                                                              *)
SubtreeNodes(t) ==
  LET b == CommitBorders(geometry[t])
  IN << [kind |-> "surface", box |-> SurfaceBox(geometry[t])],
        [kind |-> "rect", box |-> b.top],
        [kind |-> "rect", box |-> b.bottom],
        [kind |-> "rect", box |-> b.left],
        [kind |-> "rect", box |-> b.right] >>

(* the kind of the topmost node of t's subtree at the layout point c, *)
(* none if the subtree has no node there                              *)
SubtreeNodeAt(t, c) ==
  LET local == [x |-> c.x - ToDouble(node[t].x), y |-> c.y - ToDouble(node[t].y)]
      nodes == SubtreeNodes(t)
      at == { i \in 1..Len(nodes) : Contains(nodes[i].box, local) }
  IN IF at = {} THEN "none"
     ELSE nodes[CHOOSE i \in at : \A j \in at : j <= i].kind

(* wlr_scene_node_at on the scene root: the topmost node at c among the *)
(* enabled subtrees (those of the mapped toplevels), with the toplevel  *)
(* whose subtree it is in                                               *)
wlr_scene_node_at(c) ==
  LET at == { i \in 1..Len(scene) :
                scene[i] \in mapped /\ SubtreeNodeAt(scene[i], c) # "none" }
  IN IF at = {} THEN [kind |-> "none", t |-> NoToplevel]
     ELSE LET i == CHOOSE k \in at : \A j \in at : j <= k
          IN [kind |-> SubtreeNodeAt(scene[i], c), t |-> scene[i]]

(* a hit test that looks through the border rects to the surface below *)
desktop_toplevel_at_cursor_through_rects(c) ==
  LET at == { i \in 1..Len(scene) :
                scene[i] \in mapped
                /\ Contains(SurfaceBox(geometry[scene[i]]),
                            [x |-> c.x - ToDouble(node[scene[i]].x),
                             y |-> c.y - ToDouble(node[scene[i]].y)]) }
  IN IF at = {} THEN NoToplevel
     ELSE scene[CHOOSE k \in at : \A j \in at : j <= k]

(* utils.c desktop_toplevel_at with the cursor at c: NULL unless the *)
(* topmost node is a surface buffer, else the toplevel at the root of *)
(* its tree                                                           *)
desktop_toplevel_at_cursor(c) ==
  LET n == wlr_scene_node_at(c)
  IN IF n.kind # "surface" THEN NoToplevel ELSE n.t

(* server_cursor_button with the hit test made at the cursor *)
server_cursor_button_at(pressed) ==
  server_cursor_button_full(
    pressed, IF pressed THEN desktop_toplevel_at_cursor(cursor) ELSE NoToplevel)

(* server_cursor_motion_absolute with the hit test made where the cursor *)
(* is warped to                                                          *)
server_cursor_motion_at(x, y) ==
  LET n == wlr_scene_node_at([x |-> x, y |-> y])
  IN server_cursor_motion_absolute(x, y, n.kind, IF n.kind = "surface" THEN n.t ELSE NoToplevel)

(* ---------------- keyboard.c handlers ---------------- *)
(* server_new_keyboard *)
server_new_keyboard(kb) ==
  /\ ~terminated
  /\ kb \in Keyboards \ keyboards
  /\ keyboards' = keyboards \cup {kb}
  /\ seat_keyboard' = kb
  /\ fx' = [Fx("new_keyboard", NoToplevel) EXCEPT !.kb = kb]
  /\ cyc' = NoCyc
  /\ UNCHANGED << allocated, mapped, toplevels, scene, activated, focused_surface,
                  cursor_mode, grabbed_toplevel, terminated >>

(* keyboard_handle_destroy: the keyboard is unlinked and freed; the seat   *)
(* forgets a destroyed keyboard that was its active one.                   *)
keyboard_handle_destroy(kb) ==
  /\ ~terminated
  /\ kb \in keyboards
  /\ keyboards' = keyboards \ {kb}
  /\ seat_keyboard' = IF seat_keyboard = kb THEN NoKeyboard ELSE seat_keyboard
  /\ fx' = [Fx("keyboard_destroy", NoToplevel) EXCEPT !.kb = kb]
  /\ cyc' = NoCyc
  /\ UNCHANGED << allocated, mapped, toplevels, scene, activated, focused_surface,
                  cursor_mode, grabbed_toplevel, terminated >>

(* keyboard_handle_modifiers without wlr_seat_set_keyboard *)
keyboard_handle_modifiers_keep_seat(kb) ==
  /\ ~terminated
  /\ kb \in keyboards
  /\ fx' = [Fx("modifiers", NoToplevel) EXCEPT !.kb = kb]
  /\ cyc' = NoCyc
  /\ UNCHANGED << allocated, mapped, toplevels, scene, activated, focused_surface,
                  keyboards, seat_keyboard, cursor_mode, grabbed_toplevel, terminated >>

(* keyboard_handle_modifiers *)
keyboard_handle_modifiers(kb) ==
  /\ ~terminated
  /\ kb \in keyboards
  /\ seat_keyboard' = kb
  /\ fx' = [Fx("modifiers", NoToplevel) EXCEPT !.kb = kb]
  /\ cyc' = NoCyc
  /\ UNCHANGED << allocated, mapped, toplevels, scene, activated, focused_surface,
                  keyboards, cursor_mode, grabbed_toplevel, terminated >>

Count(seq, x) == Cardinality({ i \in 1..Len(seq) : seq[i] = x })

(* the run of successive cycle_toplevel invocations after a key event that *)
(* invoked cycle_toplevel k times and nothing else                         *)
CycRun(k) ==
  IF cyc.n = 0 \/ cyc.n >= Len(toplevels)
  THEN [n |-> k, f0 |-> focused_surface, front0 |-> Front(toplevels)]
  ELSE [cyc EXCEPT !.n = @ + k]

(* the key event of keyboard kb: the key produces the keysyms syms while   *)
(* the keyboard's modifier mask is mods                                    *)
KeyEvent(kb, syms, pressed, mods) ==
  /\ ~terminated
  /\ kb \in keyboards
  /\ LET s1 == keyboard_handle_key(Cur, kb, syms, pressed, mods)
         k == Count(s1.cacts, "cycle_toplevel")
     IN /\ Commit(s1)
        /\ fx' = [FxOf("key", NoToplevel, s1) EXCEPT !.kb = kb, !.pressed = pressed,
                                                     !.mods = mods, !.syms = syms]
        /\ cyc' = IF k > 0 /\ k = Len(s1.cacts) /\ s1.exec = << >>
                  THEN CycRun(k)
                  ELSE NoCyc
  /\ UNCHANGED << allocated, mapped, keyboards, cursor_mode, grabbed_toplevel >>

(* if (fork() == 0) { execl("/bin/sh", ...); } in the function from: fork *)
(* fails and there is no child, or the child is replaced by the command,  *)
(* or execl fails and the child goes on after the if                      *)
ForkOutcome(from, forked, exec_ok) ==
  [ from |-> from,
    fork |-> IF forked THEN "child" ELSE "failed",
    child |-> IF ~forked THEN "none" ELSE IF exec_ok THEN "exec" ELSE "returned" ]

(* the key event with the children of execute_program: each launcher  *)
(* binding the key runs forks once                                    *)
KeyEventForks(kb, syms, pressed, mods, forked, exec_ok) ==
  /\ KeyEvent(kb, syms, pressed, mods)
  /\ children' = IF fx'.exec # << >>
                 THEN children \cup {ForkOutcome("execute_program", forked, exec_ok)}
                 ELSE children
  /\ UNCHANGED << pvars, procvars, svars, lvars >>

(* keysym lists of a key: up to n different keysyms out of S *)
SymLists(S, n) == { l \in UNION { [1..m -> S] : m \in 0..n } : NoDup(l) }

(* ---------------- the listeners of toplevels, keyboards and popups ---------------- *)
(* the listeners server_new_xdg_toplevel, server_new_keyboard and        *)
(* server_new_xdg_popup register, in the order of the wl_signal_add calls *)
ToplevelListeners ==
  << "map", "unmap", "commit", "destroy", "request_move", "request_resize",
     "request_maximize", "request_fullscreen" >>

KeyboardListeners == << "modifiers", "key", "destroy" >>

PopupListeners == << "commit", "destroy" >>

(* the listener name of the owner id of kind kind, linked into its signal *)
Register(kind, id, names) ==
  { [kind |-> kind, id |-> id, name |-> names[i]] : i \in 1..Len(names) }

(* xdg_toplevel_destroy that leaves the two listeners linked that came  *)
(* last                                                                 *)
xdg_toplevel_destroy_steps_six ==
  << "map", "unmap", "commit", "destroy", "request_move", "request_resize",
     "free" >>

(* the statements of xdg_toplevel_destroy: a wl_list_remove per listener, *)
(* then free                                                              *)
xdg_toplevel_destroy_steps ==
  << "map", "unmap", "commit", "destroy", "request_move", "request_resize",
     "request_maximize", "request_fullscreen", "free" >>

(* the statements of keyboard_handle_destroy; link is the membership in *)
(* server->keyboards                                                    *)
keyboard_handle_destroy_steps == << "modifiers", "key", "destroy", "link", "free" >>

(* the statements of xdg_popup_destroy *)
xdg_popup_destroy_steps == << "commit", "destroy", "free" >>

(* A destroy handler of the owner id of kind kind runs steps: a step      *)
(* before free unlinks the listener it names; the listeners of the owner  *)
(* that are linked when free is reached stay linked into their signals.   *)
RunDestroy(kind, id, steps) ==
  LET free == Min({ i \in 1..Len(steps) : steps[i] = "free" })
      unlinked == { steps[i] : i \in 1..(free - 1) }
      mine == { l \in links : l.kind = kind /\ l.id = id }
      dangling == { l \in mine : l.name \notin unlinked }
  IN /\ links' = links \ (mine \ dangling)
     /\ last_destroy' = [kind |-> kind, id |-> id, steps |-> steps,
                         dangling |-> dangling]

(* server_new_xdg_toplevel with its wl_signal_add calls *)
server_new_xdg_toplevel_links(t) ==
  /\ server_new_xdg_toplevel(t)
  /\ links' = links \cup Register("toplevel", t, ToplevelListeners)
  /\ UNCHANGED << pvars, procvars, svars, children, popups, last_destroy >>

(* xdg_toplevel_destroy with its wl_list_remove calls; the popups of an  *)
(* xdg surface are destroyed before it                                   *)
xdg_toplevel_destroy_links(t) ==
  /\ xdg_toplevel_destroy(t)
  /\ \A q \in popups : q.parent # t
  /\ RunDestroy("toplevel", t, xdg_toplevel_destroy_steps)
  /\ UNCHANGED << pvars, procvars, svars, children, popups >>

(* server_new_keyboard with its wl_signal_add calls *)
server_new_keyboard_links(kb) ==
  /\ server_new_keyboard(kb)
  /\ links' = links \cup Register("keyboard", kb, KeyboardListeners)
  /\ UNCHANGED << pvars, procvars, svars, children, popups, last_destroy >>

(* keyboard_handle_destroy with its wl_list_remove calls *)
keyboard_handle_destroy_links(kb) ==
  /\ keyboard_handle_destroy(kb)
  /\ RunDestroy("keyboard", kb, keyboard_handle_destroy_steps)
  /\ UNCHANGED << pvars, procvars, svars, children, popups >>

(* popup.c server_new_xdg_popup: the popup q of the toplevel parent *)
server_new_xdg_popup(q, parent) ==
  /\ ~terminated
  /\ q \in Popups \ { r.id : r \in popups }
  /\ parent \in allocated
  /\ popups' = popups \cup {[id |-> q, parent |-> parent]}
  /\ links' = links \cup Register("popup", q, PopupListeners)
  /\ fx' = Fx("new_popup", parent)
  /\ cyc' = NoCyc
  /\ UNCHANGED << allocated, mapped, toplevels, scene, activated, focused_surface,
                  keyboards, seat_keyboard, cursor_mode, grabbed_toplevel,
                  terminated, pvars, procvars, svars, children, last_destroy >>

(* popup.c xdg_popup_destroy *)
xdg_popup_destroy(q) ==
  /\ ~terminated
  /\ q \in { r.id : r \in popups }
  /\ popups' = { r \in popups : r.id # q }
  /\ RunDestroy("popup", q, xdg_popup_destroy_steps)
  /\ fx' = Fx("popup_destroy", NoToplevel)
  /\ cyc' = NoCyc
  /\ UNCHANGED << allocated, mapped, toplevels, scene, activated, focused_surface,
                  keyboards, seat_keyboard, cursor_mode, grabbed_toplevel,
                  terminated, pvars, procvars, svars, children >>

(* ---------------- main.c: the command line ---------------- *)
(* what an element of argv can be: the two options of "s:h", an option *)
(* that is not in "s:h", and a word that is no option                  *)
Words == {"-h", "-s", "-x", "cmd"}

ArgLists == UNION { [1..n -> Words] : n \in 0..MaxArgs }

IsOption(w) == w # "cmd"

(* the first option at or after argv[i], argc if there is none *)
FirstOption(args, i) ==
  LET S == { j \in i..Len(args) : IsOption(args[j]) }
  IN IF S = {} THEN Len(args) + 1 ELSE Min(S)

(* getopt(argc, argv, "s:h") called with optind = i: the character it   *)
(* returns ("EOF" for -1) and optind and optarg when it has returned.   *)
(* glibc skips the words before the next option and moves them behind   *)
(* the options later; with POSIXLY_CORRECT set it stops at the first    *)
(* word.  "-s" takes the next element as its argument whatever that is; *)
(* "-s" as the last element and "-x" give '?'.                          *)
getopt(args, i, posix) ==
  LET argc == Len(args) + 1
      j == IF posix THEN i ELSE FirstOption(args, i)
  IN IF j >= argc \/ ~IsOption(args[j])
     THEN [c |-> "EOF", optind |-> j, optarg |-> NoCmd]
     ELSE IF args[j] = "-h"
     THEN [c |-> "h", optind |-> j + 1, optarg |-> NoCmd]
     ELSE IF args[j] = "-s" /\ j + 1 < argc
     THEN [c |-> "s", optind |-> j + 2, optarg |-> args[j + 1]]
     ELSE [c |-> "?", optind |-> j + 1, optarg |-> NoCmd]

(* the while loop of process_args from optind on, startup_cmd being cmd *)
RECURSIVE process_args_from(_, _, _, _)
process_args_from(args, posix, optind, cmd) ==
  LET g == getopt(args, optind, posix)
  IN IF g.c = "EOF"
     THEN [ret |-> 1, startup_cmd |-> cmd, stdio |-> NoStdio]
     ELSE IF g.c = "h"
     THEN [ret |-> 0, startup_cmd |-> cmd,
           stdio |-> [out |-> << "usage" >>, err |-> << >>]]
     ELSE IF g.c = "?"
     THEN [ret |-> -1, startup_cmd |-> cmd,
           stdio |-> [out |-> << >>, err |-> << "unknown option" >>]]
     ELSE IF g.optind < Len(args) + 1
     THEN [ret |-> -1, startup_cmd |-> g.optarg,
           stdio |-> [out |-> << "usage" >>, err |-> << >>]]
     ELSE process_args_from(args, posix, g.optind, g.optarg)

(* main.c process_args *)
process_args(args, posix) == process_args_from(args, posix, 1, NoCmd)

(* main up to the struct tinywl_server: process_args and the two exits *)
main_process_args ==
  /\ pc = "args"
  /\ LET r == process_args(argv, posixly_correct)
     IN /\ startup_cmd' = r.startup_cmd
        /\ stdio' = r.stdio
        /\ IF r.ret = -1
           THEN pc' = "exited" /\ exit_status' = EXIT_FAILURE
           ELSE IF r.ret = 0
           THEN pc' = "exited" /\ exit_status' = EXIT_SUCCESS
           ELSE pc' = "display_backend" /\ UNCHANGED exit_status
  /\ UNCHANGED << wvars, pvars, argv, posixly_correct, objs, listeners, socket,
                  started, wayland_display, spawned, teardown, faults,
                  failed_step, svars, lvars, children >>

(* ---------------- main.c: the four stages ---------------- *)
(* setup_display_and_backend: backend_ok is whether wlr_backend_autocreate *)
(* returned a backend                                                      *)
setup_display_and_backend(backend_ok) ==
  /\ pc = "display_backend"
  /\ objs' = [objs EXCEPT !["display"] = "live",
                          !["backend"] = IF backend_ok THEN "live" ELSE @]
  /\ pc' = IF backend_ok THEN "rendering" ELSE "failed"
  /\ failed_step' = IF backend_ok THEN failed_step ELSE "wlr_backend_autocreate"
  /\ UNCHANGED << wvars, pvars, argv, posixly_correct, startup_cmd, exit_status,
                  stdio, listeners, socket, started, wayland_display, spawned,
                  teardown, faults, svars, lvars, children >>

RenderingResults == {"ok", "wlr_renderer_autocreate", "wlr_allocator_autocreate"}

(* setup_rendering: r is the call that fails, or ok *)
setup_rendering(r) ==
  /\ pc = "rendering"
  /\ r \in RenderingResults
  /\ objs' = IF r = "wlr_renderer_autocreate" THEN objs
             ELSE IF r = "wlr_allocator_autocreate"
             THEN [objs EXCEPT !["renderer"] = "live"]
             ELSE [objs EXCEPT !["renderer"] = "live", !["allocator"] = "live",
                               !["scene"] = "live"]
  /\ listeners' = IF r = "ok" THEN listeners \cup RenderingListeners ELSE listeners
  /\ pc' = IF r = "ok" THEN "shell_input" ELSE "failed"
  /\ failed_step' = IF r = "ok" THEN failed_step ELSE r
  /\ UNCHANGED << wvars, pvars, argv, posixly_correct, startup_cmd, exit_status,
                  stdio, socket, started, wayland_display, spawned, teardown,
                  faults, svars, lvars, children >>

(* setup_shell_and_input: it has no failure return *)
setup_shell_and_input ==
  /\ pc = "shell_input"
  /\ toplevels' = << >>
  /\ keyboards' = {}
  /\ cursor_mode' = TINYWL_CURSOR_PASSTHROUGH
  /\ objs' = [objs EXCEPT !["cursor"] = "live", !["cursor_mgr"] = "live"]
  /\ listeners' = listeners \cup ShellInputListeners
  /\ pc' = "finalize"
  /\ UNCHANGED << allocated, mapped, scene, activated, focused_surface,
                  seat_keyboard, grabbed_toplevel, terminated, fx, cyc, pvars,
                  argv, posixly_correct, startup_cmd, exit_status, stdio, socket,
                  started, wayland_display, spawned, teardown, faults,
                  failed_step, svars, lvars, children >>

FinalizeResults == {"ok", "wl_display_add_socket_auto", "wlr_backend_start"}

(* finalize_startup that runs the startup command before it starts the *)
(* backend                                                             *)
finalize_startup_spawn_first(r, forked, exec_ok) ==
  /\ pc = "finalize"
  /\ r \in FinalizeResults
  /\ socket' = IF r = "wl_display_add_socket_auto" THEN NoSocket ELSE "wayland-0"
  /\ objs' = IF r = "wl_display_add_socket_auto"
             THEN [objs EXCEPT !["backend"] = "freed"]
             ELSE IF r = "wlr_backend_start"
             THEN [objs EXCEPT !["backend"] = "freed", !["display"] = "freed"]
             ELSE objs
  /\ started' = (r = "ok")
  /\ wayland_display' = IF r = "ok" THEN "wayland-0" ELSE wayland_display
  /\ spawned' = IF r # "wl_display_add_socket_auto" /\ startup_cmd # NoCmd /\ forked
                THEN spawned + 1 ELSE spawned
  /\ children' = IF r # "wl_display_add_socket_auto" /\ startup_cmd # NoCmd
                 THEN children \cup {ForkOutcome("finalize_startup", forked, exec_ok)}
                 ELSE children
  /\ pc' = IF r = "ok" THEN "run" ELSE "failed"
  /\ failed_step' = IF r = "ok" THEN failed_step ELSE r
  /\ UNCHANGED << wvars, pvars, argv, posixly_correct, startup_cmd, exit_status,
                  stdio, listeners, teardown, faults, svars, lvars >>

(* finalize_startup: r is the call that fails, or ok; forked is whether *)
(* fork gave a child, exec_ok whether execl replaced the child.  A      *)
(* failure path destroys what the code destroys there and leaves the    *)
(* listeners linked.                                                    *)
finalize_startup(r, forked, exec_ok) ==
  /\ pc = "finalize"
  /\ r \in FinalizeResults
  /\ socket' = IF r = "wl_display_add_socket_auto" THEN NoSocket ELSE "wayland-0"
  /\ objs' = IF r = "wl_display_add_socket_auto"
             THEN [objs EXCEPT !["backend"] = "freed"]
             ELSE IF r = "wlr_backend_start"
             THEN [objs EXCEPT !["backend"] = "freed", !["display"] = "freed"]
             ELSE objs
  /\ started' = (r = "ok")
  /\ wayland_display' = IF r = "ok" THEN "wayland-0" ELSE wayland_display
  /\ spawned' = IF r = "ok" /\ startup_cmd # NoCmd /\ forked
                THEN spawned + 1 ELSE spawned
  /\ children' = IF r = "ok" /\ startup_cmd # NoCmd
                 THEN children \cup {ForkOutcome("finalize_startup", forked, exec_ok)}
                 ELSE children
  /\ pc' = IF r = "ok" THEN "run" ELSE "failed"
  /\ failed_step' = IF r = "ok" THEN failed_step ELSE r
  /\ UNCHANGED << wvars, pvars, argv, posixly_correct, startup_cmd, exit_status,
                  stdio, listeners, teardown, faults, svars, lvars >>

(* ---------------- server.c: server_cleanup ---------------- *)
(* What makes a statement of server_cleanup undefined: a listener that  *)
(* was never linked (its link is zero, wl_list_remove dereferences NULL) *)
(* or whose signal was freed with its owner, an object that is NULL or   *)
(* was destroyed before.                                                 *)
StepFault(step) ==
  IF step.op = "unlink"
  THEN IF step.arg \notin listeners THEN "unlink of a listener never linked"
       ELSE IF objs[Owner(step.arg)] = "freed" THEN "unlink after the owner was freed"
       ELSE "none"
  ELSE IF objs[step.arg] = "freed" THEN "use after free"
  ELSE IF objs[step.arg] = "null" THEN "use of NULL"
  ELSE "none"

(* server_cleanup, one statement at a time: the statements that have run *)
(* are in teardown, the next one is CleanupSteps[Len(teardown) + 1].      *)
(* An undefined statement either kills the process (crash) or goes        *)
(* through.  wlr_backend_destroy destroys the input devices, and with     *)
(* them the keyboards (keyboard_handle_destroy).                          *)
server_cleanup_step(crash) ==
  /\ pc \in {"failed", "shutdown"}
  /\ Len(teardown) < Len(CleanupSteps)
  /\ LET step == CleanupSteps[Len(teardown) + 1]
         f == StepFault(step)
         freed == step.op = "destroy" /\ objs[step.arg] = "live"
     IN /\ crash => f # "none"
        /\ faults' = IF f = "none" THEN faults
                     ELSE Append(faults, [step |-> step, fault |-> f])
        /\ IF crash
           THEN /\ pc' = "crashed"
                /\ UNCHANGED << teardown, listeners, objs, keyboards, seat_keyboard >>
           ELSE /\ pc' = pc
                /\ teardown' = Append(teardown, step)
                /\ listeners' = IF step.op = "unlink" THEN listeners \ {step.arg}
                                ELSE listeners
                /\ objs' = IF freed THEN [objs EXCEPT ![step.arg] = "freed"] ELSE objs
                /\ keyboards' = IF freed /\ step.arg = "backend" THEN {} ELSE keyboards
                /\ seat_keyboard' = IF freed /\ step.arg = "backend" THEN NoKeyboard
                                    ELSE seat_keyboard
  /\ UNCHANGED << allocated, mapped, toplevels, scene, activated, focused_surface,
                  cursor_mode, grabbed_toplevel, terminated, fx, cyc, pvars, argv,
                  posixly_correct, startup_cmd, exit_status, stdio, socket, started,
                  wayland_display, spawned, failed_step, svars, lvars, children >>

(* main, wl_display_run returns once wl_display_terminate was called *)
wl_display_run_returns ==
  /\ pc = "run"
  /\ terminated
  /\ pc' = "shutdown"
  /\ UNCHANGED << wvars, pvars, argv, posixly_correct, startup_cmd, exit_status,
                  stdio, objs, listeners, socket, started, wayland_display,
                  spawned, teardown, faults, failed_step, svars, lvars, children >>

(* main, server_cleanup has returned: exit(EXIT_FAILURE) after a failed *)
(* stage, exit(EXIT_SUCCESS) after the event loop                       *)
main_exit ==
  /\ pc \in {"failed", "shutdown"}
  /\ Len(teardown) = Len(CleanupSteps)
  /\ exit_status' = IF pc = "failed" THEN EXIT_FAILURE ELSE EXIT_SUCCESS
  /\ pc' = "exited"
  /\ UNCHANGED << wvars, pvars, argv, posixly_correct, startup_cmd, stdio, objs,
                  listeners, socket, started, wayland_display, spawned, teardown,
                  faults, failed_step, svars, lvars, children >>

(* ---------------- the window-management specification ---------------- *)
(* every window, pointer and keyboard event; the keys pressed here are     *)
(* single-keysym keys pressed while MODKEY is held (SpecKey varies them)   *)
Next ==
  \/ \E t \in Toplevels : server_new_xdg_toplevel(t) /\ Still
  \/ \E t \in Toplevels : xdg_toplevel_map(t) /\ Still
  \/ \E t \in Toplevels : xdg_toplevel_unmap(t) /\ Still
  \/ \E t \in Toplevels : xdg_toplevel_destroy(t) /\ Still
  \/ \E t \in Toplevels : xdg_toplevel_request_move(t) /\ Still
  \/ \E t \in Toplevels : xdg_toplevel_request_resize(t) /\ Still
  \/ \E pressed \in BOOLEAN, hit \in Toplevels \cup {NoToplevel} :
        server_cursor_button(pressed, hit) /\ Still
  \/ server_cursor_motion /\ Still
  \/ \E kb \in WorldKeyboards : server_new_keyboard(kb) /\ Still
  \/ \E kb \in WorldKeyboards : keyboard_handle_destroy(kb) /\ Still
  \/ \E kb \in WorldKeyboards : keyboard_handle_modifiers(kb) /\ Still
  \/ \E kb \in WorldKeyboards, sym \in KeySyms :
        KeyEvent(kb, << sym >>, TRUE, {MODKEY}) /\ Still

Spec == Init /\ [][Next]_vars

(* ---------------- the key-handling specification ---------------- *)
(* every keysym list up to MaxSyms and every modifier mask, over a small   *)
(* window population that only grows                                       *)
NextKey ==
  \/ \E t \in Toplevels :
        Cardinality(allocated) < KeyWorldToplevels /\ server_new_xdg_toplevel(t) /\ Still
  \/ \E t \in Toplevels : xdg_toplevel_map(t) /\ Still
  \/ \E kb \in WorldKeyboards : server_new_keyboard(kb) /\ Still
  \/ \E kb \in WorldKeyboards : keyboard_handle_destroy(kb) /\ Still
  \/ \E kb \in WorldKeyboards : keyboard_handle_modifiers(kb) /\ Still
  \/ \E kb \in WorldKeyboards, syms \in SymLists(KeyWorldSyms, MaxSyms), pressed \in BOOLEAN,
        mods \in SUBSET Modifiers :
        KeyEvent(kb, syms, pressed, mods) /\ Still

SpecKey == Init /\ [][NextKey]_vars

(* ---------------- the pointer specification ---------------- *)
(* interactive move and resize with the pointer geometry, over a small    *)
(* window population: no keyboard, no button press, nothing under the     *)
(* cursor                                                                 *)
NextPtr ==
  \/ \E t \in Toplevels :
        Cardinality(allocated) < PtrWorldToplevels /\ server_new_xdg_toplevel_full(t) /\ Rest
  \/ \E t \in Toplevels, g \in ClientGeometries : xdg_toplevel_map_full(t, g) /\ Rest
  \/ \E t \in Toplevels, g \in ClientGeometries \cup {ZeroBox}, i \in BOOLEAN :
        xdg_toplevel_commit(t, g, i) /\ Rest
  \/ \E t \in Toplevels : xdg_toplevel_request_move_full(t) /\ Rest
  \/ \E t \in Toplevels, edges \in EdgeMasks : xdg_toplevel_request_resize_full(t, edges) /\ Rest
  \/ server_cursor_button_full(FALSE, NoToplevel) /\ Rest
  \/ \E dx \in -1..1, dy \in -1..1 :
        server_cursor_motion_full(dx, dy, "none", NoToplevel) /\ Rest
  \/ \E x \in CursorCoords, y \in CursorCoords :
        server_cursor_motion_absolute(x, y, "none", NoToplevel) /\ Rest

SpecPtr == Init /\ [][NextPtr]_vars

(* ---------------- the pointer-focus specification ---------------- *)
(* what lies under the cursor varies; the cursor moves along one line,    *)
(* the windows have one geometry and a resize is by the bottom-right      *)
(* corner                                                                 *)
NextHit ==
  \/ \E t \in Toplevels :
        Cardinality(allocated) < HitWorldToplevels /\ server_new_xdg_toplevel_full(t) /\ Rest
  \/ \E t \in Toplevels : xdg_toplevel_map_full(t, Box(0, 0, 2, 1)) /\ Rest
  \/ \E t \in Toplevels : xdg_toplevel_unmap_full(t) /\ Rest
  \/ \E t \in Toplevels : xdg_toplevel_destroy_full(t) /\ Rest
  \/ \E t \in Toplevels : xdg_toplevel_request_move_full(t) /\ Rest
  \/ \E t \in Toplevels :
        xdg_toplevel_request_resize_full(t, {WLR_EDGE_RIGHT, WLR_EDGE_BOTTOM}) /\ Rest
  \/ \E pressed \in BOOLEAN, hit \in Toplevels \cup {NoToplevel} :
        server_cursor_button_full(pressed, hit) /\ Rest
  \/ \E dx \in -1..1, kind \in HitKinds, ht \in Toplevels \cup {NoToplevel} :
        server_cursor_motion_full(dx, 0, kind, ht) /\ Rest
  \/ \E x \in CursorCoords, kind \in HitKinds, ht \in Toplevels \cup {NoToplevel} :
        server_cursor_motion_absolute(x, 0, kind, ht) /\ Rest

SpecHit == Init /\ [][NextHit]_vars

(* ---------------- the seat specification ---------------- *)
(* several keyboards; the keys are single-keysym keys, pressed and     *)
(* released with and without MODKEY                                    *)
NextSeat ==
  \/ \E t \in Toplevels :
        Cardinality(allocated) < SeatWorldToplevels /\ server_new_xdg_toplevel(t) /\ Still
  \/ \E t \in Toplevels : xdg_toplevel_map(t) /\ Still
  \/ \E kb \in Keyboards : server_new_keyboard(kb) /\ Still
  \/ \E kb \in Keyboards : keyboard_handle_destroy(kb) /\ Still
  \/ \E kb \in Keyboards : keyboard_handle_modifiers(kb) /\ Still
  \/ \E kb \in Keyboards, sym \in KeySyms, pressed \in BOOLEAN, mods \in {{}, {MODKEY}} :
        KeyEvent(kb, << sym >>, pressed, mods) /\ Still

SpecSeat == Init /\ [][NextSeat]_vars

(* ---------------- the cursor-image specification ---------------- *)
(* the pointer buttons one by one, the cursor image and the clients'   *)
(* set_cursor requests; the cursor moves along one line by absolute    *)
(* motion, the windows have one geometry, the only grab is a move      *)
Buttons == 1..MaxButtons

Hotspots == 0..MaxHotspot

(* server_cursor_button for button b: the handler passes the button to  *)
(* the seat and reads the state only                                    *)
server_cursor_button_held(b, pressed, hit) ==
  /\ server_cursor_button_full(pressed, hit)
  /\ IF pressed
     THEN b \notin held /\ held' = held \cup {b}
     ELSE b \in held /\ held' = held \ {b}
  /\ mode0' = cursor_mode
  /\ UNCHANGED << procvars, cursor_image, lvars, children >>

(* process_cursor_motion with the cursor image: in passthrough mode the *)
(* theme's default cursor is set when no toplevel is under the cursor   *)
server_cursor_motion_image(x, kind, ht) ==
  /\ server_cursor_motion_absolute(x, 0, kind, ht)
  /\ cursor_image' = IF cursor_mode = TINYWL_CURSOR_PASSTHROUGH /\ kind # "surface"
                     THEN ThemeCursor ELSE cursor_image
  /\ UNCHANGED << procvars, held, mode0, lvars, children >>

(* seat_request_cursor that honours every client *)
seat_request_cursor_any_client(client, hotspot) ==
  /\ ~terminated
  /\ cursor_image' = [client |-> client, hotspot |-> hotspot]
  /\ fx' = Fx("request_set_cursor", client)
  /\ cyc' = NoCyc
  /\ UNCHANGED << allocated, mapped, toplevels, scene, activated, focused_surface,
                  keyboards, seat_keyboard, cursor_mode, grabbed_toplevel,
                  terminated, pvars, procvars, held, mode0, lvars, children >>

(* seat_request_cursor: client asks for its surface, with the hotspot,  *)
(* as the cursor image; a client has the id of its toplevel and surface *)
seat_request_cursor(client, hotspot) ==
  /\ ~terminated
  /\ cursor_image' = IF pointer_focus # NoSurface /\ pointer_focus = client
                     THEN [client |-> client, hotspot |-> hotspot]
                     ELSE cursor_image
  /\ fx' = Fx("request_set_cursor", client)
  /\ cyc' = NoCyc
  /\ UNCHANGED << allocated, mapped, toplevels, scene, activated, focused_surface,
                  keyboards, seat_keyboard, cursor_mode, grabbed_toplevel,
                  terminated, pvars, procvars, held, mode0, lvars, children >>

NextCursor ==
  \/ \E t \in Toplevels :
        Cardinality(allocated) < CursorWorldToplevels /\ server_new_xdg_toplevel_full(t) /\ Rest
  \/ \E t \in Toplevels : xdg_toplevel_map_full(t, Box(0, 0, 2, 1)) /\ Rest
  \/ \E t \in Toplevels : xdg_toplevel_request_move_full(t) /\ Rest
  \/ \E b \in Buttons, pressed \in BOOLEAN, hit \in Toplevels \cup {NoToplevel} :
        server_cursor_button_held(b, pressed, hit)
  \/ \E x \in CursorCoords, kind \in HitKinds, ht \in Toplevels \cup {NoToplevel} :
        server_cursor_motion_image(x, kind, ht)
  \/ \E client \in Toplevels, hotspot \in Hotspots : seat_request_cursor(client, hotspot)

SpecCursor == Init /\ [][NextCursor]_vars

(* ---------------- the click specification ---------------- *)
(* the hit test computed from the scene: windows of both geometries, one *)
(* above the other, moved by interactive moves; presses and releases at  *)
(* the cursor, which moves along one line                                *)
NextClick ==
  \/ \E t \in Toplevels :
        Cardinality(allocated) < ClickWorldToplevels /\ server_new_xdg_toplevel_full(t) /\ Rest
  \/ \E t \in Toplevels, g \in ClientGeometries : xdg_toplevel_map_full(t, g) /\ Rest
  \/ \E t \in Toplevels : xdg_toplevel_unmap_full(t) /\ Rest
  \/ \E t \in Toplevels : t \in mapped /\ xdg_toplevel_request_move_full(t) /\ Rest
  \/ \E pressed \in BOOLEAN : server_cursor_button_at(pressed) /\ Rest
  \/ \E x \in CursorCoords : server_cursor_motion_at(x, 0) /\ Rest
  \/ \E kb \in WorldKeyboards : server_new_keyboard(kb) /\ Still

SpecClick == Init /\ [][NextClick]_vars

(* ---------------- the listener specification ---------------- *)
(* toplevels, keyboards and popups come and go with their listeners *)
NextLinks ==
  \/ \E t \in Toplevels :
        Cardinality(allocated) < LinksWorldToplevels /\ server_new_xdg_toplevel_links(t)
  \/ \E t \in Toplevels : xdg_toplevel_map(t) /\ Still
  \/ \E t \in Toplevels : xdg_toplevel_unmap(t) /\ Still
  \/ \E t \in Toplevels : xdg_toplevel_destroy_links(t)
  \/ \E kb \in Keyboards : server_new_keyboard_links(kb)
  \/ \E kb \in Keyboards : keyboard_handle_destroy_links(kb)
  \/ \E q \in Popups, parent \in Toplevels : server_new_xdg_popup(q, parent)
  \/ \E q \in Popups : xdg_popup_destroy(q)

SpecLinks == Init /\ [][NextLinks]_vars

(* ---------------- the process specification ---------------- *)
(* main from its first statement to exit: every command line of up to   *)
(* MaxArgs elements, every failure of a stage, and in the event loop the *)
(* keyboard only (no client connects)                                    *)
ProcessStart ==
  /\ pc = "args"
  /\ argv \in ArgLists
  /\ posixly_correct \in BOOLEAN
  /\ startup_cmd = NoCmd
  /\ exit_status = NoStatus
  /\ stdio = NoStdio
  /\ objs = [o \in Objects |-> "null"]
  /\ listeners = {}
  /\ socket = NoSocket
  /\ started = FALSE
  /\ wayland_display = NoSocket
  /\ spawned = 0
  /\ teardown = << >>
  /\ faults = << >>
  /\ failed_step = NoStep

InitMain == ServerInit /\ ProcessStart

NextMain ==
  \/ main_process_args
  \/ \E ok \in BOOLEAN : setup_display_and_backend(ok)
  \/ \E r \in RenderingResults : setup_rendering(r)
  \/ setup_shell_and_input
  \/ \E r \in FinalizeResults, forked \in BOOLEAN, exec_ok \in BOOLEAN :
        finalize_startup(r, forked, exec_ok)
  \/ \E kb \in WorldKeyboards : pc = "run" /\ server_new_keyboard(kb) /\ Still
  \/ \E kb \in WorldKeyboards : pc = "run" /\ keyboard_handle_modifiers(kb) /\ Still
  \/ \E kb \in WorldKeyboards, sym \in KeySyms, pressed \in BOOLEAN,
        forked \in BOOLEAN, exec_ok \in BOOLEAN :
        pc = "run" /\ KeyEventForks(kb, << sym >>, pressed, {MODKEY}, forked, exec_ok)
  \/ wl_display_run_returns
  \/ \E crash \in BOOLEAN : server_cleanup_step(crash)
  \/ main_exit

SpecMain == InitMain /\ [][NextMain]_vars

(* main is a sequential program: once wl_display_run has returned it goes *)
(* on to server_cleanup and exit                                          *)
SpecMainFair ==
  /\ SpecMain
  /\ WF_vars(wl_display_run_returns)
  /\ WF_vars(\E crash \in BOOLEAN : server_cleanup_step(crash))
  /\ WF_vars(main_exit)


(* ======================= claims ======================= *)

(* C1: in every reachable state grabbed_toplevel is NULL if and only if   *)
(* cursor_mode is passthrough.                                             *)
C1_ModeGrabCoupling ==
  (grabbed_toplevel = NoToplevel) <=> (cursor_mode = TINYWL_CURSOR_PASSTHROUGH)

(* a grab ended by a button release, and one that is in progress *)
C1_Witness ==
  /\ cursor_mode = TINYWL_CURSOR_RESIZE
  /\ grabbed_toplevel \in mapped
  /\ fx.op = "request_resize"

(* C2: a toplevel is in server->toplevels iff it is mapped, never twice;  *)
(* new_toplevel does not link it and map links it at the front.           *)
C2_SequenceIffMapped ==
  /\ Range(toplevels) = mapped
  /\ NoDup(toplevels)
  /\ fx.op = "new_toplevel" => fx.t \notin Range(toplevels)
  /\ fx.op = "map" => toplevels # << >> /\ Head(toplevels) = fx.t

C2_Witness ==
  /\ fx.op = "map"
  /\ Len(toplevels) >= 2
  /\ allocated \ mapped # {}

(* C3 (as claimed): when focus_toplevel(T) returns, for T not NULL and    *)
(* mapped, T is the first element of the list and its scene subtree is    *)
(* the topmost of the mapped toplevels' subtrees.                         *)
C3_FocusFrontTop ==
  \A i \in 1..Len(fx.calls) :
    LET c == fx.calls[i]
    IN (c.arg # NoToplevel /\ c.arg \in mapped) => (c.front = c.arg /\ c.top = c.arg)

(* C4 (as claimed): cycle_toplevel on a list of two or more focuses the   *)
(* back element and moves it to the front, the others keeping their       *)
(* order; on a shorter list it changes nothing.                           *)
C4_CycleRotates ==
  \A i \in 1..Len(fx.cycles) :
    LET c == fx.cycles[i]
    IN IF Len(c.before) >= 2
       THEN /\ c.fafter = Last(c.before)
            /\ c.after = << Last(c.before) >> \o SubSeq(c.before, 1, Len(c.before) - 1)
       ELSE c.same

(* C5 (as claimed): after N successive cycles in a state with N >= 2      *)
(* mapped toplevels the surface that held the keyboard focus before the   *)
(* first cycle holds it again.                                            *)
C5_CycleNRestoresFocus ==
  (Len(toplevels) >= 2 /\ cyc.n = Len(toplevels) /\ cyc.f0 # NoSurface)
    => focused_surface = cyc.f0


(* C5 (amended): after N successive cycles in a state with N >= 2 mapped  *)
(* toplevels whose front toplevel held the keyboard focus, that toplevel  *)
(* holds it again.                                                        *)
C5_CycleNRestoresFrontFocus ==
  (Len(toplevels) >= 2 /\ cyc.n = Len(toplevels) /\ cyc.f0 # NoSurface
     /\ cyc.f0 = cyc.front0)
    => focused_surface = cyc.f0

(* a full rotation of three toplevels that started with the front focused *)
C5_Witness ==
  /\ Len(toplevels) = 3
  /\ cyc.n = 3
  /\ cyc.f0 # NoSurface
  /\ cyc.f0 = cyc.front0
  /\ fx.op = "key"

C7_UnmapOfGrabbed ==
  (fx.op = "unmap" /\ fx.grab0 = fx.t)
    => /\ cursor_mode = TINYWL_CURSOR_PASSTHROUGH
       /\ grabbed_toplevel = NoToplevel
       /\ fx.t \notin Range(toplevels)

C7_Witness ==
  /\ fx.op = "unmap"
  /\ fx.grab0 = fx.t
  /\ toplevels # << >>

(* the keysyms of the launcher table and of the compositor table *)
LauncherKeys == { bindings[i].key : i \in 1..BINDINGS_COUNT }

CompositorKeys == { c_bindings[i].key : i \in 1..C_BINDINGS_COUNT }

IsBindingPress ==
  fx.op = "key" /\ fx.pressed /\ MODKEY \in fx.mods

(* C8 (as claimed): a press with MODKEY held of a key one of whose        *)
(* keysyms is in the launcher table runs the launcher command and is not  *)
(* forwarded to the client.                                               *)
C8_LauncherPressNotForwarded ==
  (IsBindingPress /\ Range(fx.syms) \cap LauncherKeys # {})
    => (fx.exec # << >> /\ ~fx.forwarded)

(* C9: a key release, and a press without MODKEY in the modifier mask,    *)
(* runs no binding action and is forwarded to the client.                 *)
C9_NoBindingWithoutModPress ==
  (fx.op = "key" /\ (~fx.pressed \/ MODKEY \notin fx.mods))
    => /\ fx.exec = << >>
       /\ fx.cacts = << >>
       /\ fx.killed = << >>
       /\ fx.cycles = << >>
       /\ fx.forwarded
       /\ seat_keyboard = fx.kb

(* a release under MODKEY, and a press under another modifier, of a key   *)
(* with a bound keysym                                                    *)
C9_Witness ==
  /\ fx.op = "key"
  /\ Range(fx.syms) \cap (LauncherKeys \cup CompositorKeys) # {}
  /\ \/ ~fx.pressed /\ MODKEY \in fx.mods
     \/ fx.pressed /\ fx.mods = {"shift"}

(* C10 (as claimed): one key event runs exactly one binding action when   *)
(* a keysym of the key is bound and the press is under MODKEY, and none   *)
(* otherwise.                                                             *)
C10_OneActionPerKey ==
  fx.op = "key" =>
    Len(fx.exec) + Len(fx.cacts) =
      IF IsBindingPress /\ Range(fx.syms) \cap (LauncherKeys \cup CompositorKeys) # {}
      THEN 1 ELSE 0

(* C11 (as claimed): the size process_cursor_resize requests from the     *)
(* client has width >= 1 and height >= 1, whatever the grab geometry, the *)
(* edge mask and the cursor position.                                     *)
C11_ResizeNonDegenerate ==
  (fx.op = "motion" /\ fx.size # << >>) => (fx.size[1] >= 1 /\ fx.size[2] >= 1)

(* C12: while cursor_mode is move a cursor motion event sets the scene    *)
(* position of the grabbed toplevel and nothing else: no size is          *)
(* requested, no geometry and no other toplevel's position changes.       *)
C12_MovePreservesSize ==
  [][ (cursor_mode = TINYWL_CURSOR_MOVE /\ fx'.op = "motion")
      => ( /\ fx'.size = << >>
           /\ geometry' = geometry
           /\ \A t \in Toplevels \ {grabbed_toplevel} : node'[t] = node[t]
           /\ << cursor_mode', grabbed_toplevel', toplevels', mapped' >>
                = << cursor_mode, grabbed_toplevel, toplevels, mapped >> ) ]_vars

(* a mapped toplevel that an interactive move took away from the origin *)
C12_Witness ==
  /\ fx.op = "motion"
  /\ cursor_mode = TINYWL_CURSOR_MOVE
  /\ grabbed_toplevel \in mapped
  /\ node[grabbed_toplevel] # [x |-> 0, y |-> 0]

(* C13 (as claimed): after a motion event of an interactive move the      *)
(* scene origin of the grabbed toplevel is cursor - grab, grab being      *)
(* cursor - origin when the move began.                                   *)
C13_MoveOffsetConstant ==
  (fx.op = "motion" /\ cursor_mode = TINYWL_CURSOR_MOVE /\ grab0.t = grabbed_toplevel
     /\ grabbed_toplevel \in mapped)
    => /\ ToDouble(node[grabbed_toplevel].x) = cursor.x - grab0.off.x
       /\ ToDouble(node[grabbed_toplevel].y) = cursor.y - grab0.off.y

(* C13 (amended): the scene origin is cursor - grab with the fraction of  *)
(* a pixel discarded.                                                     *)
C13_MoveOffsetTruncated ==
  (fx.op = "motion" /\ cursor_mode = TINYWL_CURSOR_MOVE /\ grab0.t = grabbed_toplevel)
    => /\ node[grabbed_toplevel].x = ToInt(cursor.x - grab0.off.x)
       /\ node[grabbed_toplevel].y = ToInt(cursor.y - grab0.off.y)

(* a move of a mapped toplevel begun with the cursor off the window       *)
(* origin: the cursor has gone a fraction of a pixel along x and a whole  *)
(* pixel along y                                                          *)
C13_Witness ==
  /\ fx.op = "motion"
  /\ cursor_mode = TINYWL_CURSOR_MOVE
  /\ grab0.t = grabbed_toplevel
  /\ grabbed_toplevel \in mapped
  /\ grab0.off.x # 0
  /\ (cursor.x - grab0.off.x) % Sub # 0
  /\ node[grabbed_toplevel].y # 0

BottomRight == {WLR_EDGE_RIGHT, WLR_EDGE_BOTTOM}

AtLeast1(v) == IF v < 1 THEN 1 ELSE v

(* the size the claim gives for a grab size v0 (pixels) and a cursor      *)
(* displacement d (1/Sub pixel): v0 + d, at least 1                       *)
GrabSizePlus(size, v0, d) ==
  IF ToDouble(v0) + d >= ToDouble(1)
  THEN ToDouble(size) = ToDouble(v0) + d
  ELSE size = 1

(* C14 (as claimed): a motion of a resize begun with edges {right,bottom} *)
(* leaves the scene origin where it was and requests the grab size plus   *)
(* the cursor displacement since the grab, each component at least 1.     *)
C14_ResizeBottomRight ==
  (fx.op = "motion" /\ cursor_mode = TINYWL_CURSOR_RESIZE
     /\ resize_edges = BottomRight /\ grab0.t = grabbed_toplevel
     /\ grabbed_toplevel \in mapped)
    => /\ node[grabbed_toplevel] = grab0.origin
       /\ fx.size # << >>
       /\ GrabSizePlus(fx.size[1], grab0.geo.width, cursor.x - grab0.cursor.x)
       /\ GrabSizePlus(fx.size[2], grab0.geo.height, cursor.y - grab0.cursor.y)

(* C14 (amended): such a motion keeps the top-left corner of the geometry *)
(* at its layout position of the grab (the scene origin moves by what the *)
(* client moved the geometry origin since) and requests the distance from *)
(* that corner to the grabbed corner displaced with the cursor, the       *)
(* fraction of a pixel of its layout coordinate discarded, at least 1.    *)
C14_ResizeBottomRightCorner ==
  (fx.op = "motion" /\ cursor_mode = TINYWL_CURSOR_RESIZE
     /\ resize_edges = BottomRight /\ grab0.t = grabbed_toplevel)
    => LET left0 == grab0.origin.x + grab0.geo.x
           top0 == grab0.origin.y + grab0.geo.y
           right == ToInt(ToDouble(left0 + grab0.geo.width) + (cursor.x - grab0.cursor.x))
           bottom == ToInt(ToDouble(top0 + grab0.geo.height) + (cursor.y - grab0.cursor.y))
       IN /\ node[grabbed_toplevel].x + geometry[grabbed_toplevel].x = left0
          /\ node[grabbed_toplevel].y + geometry[grabbed_toplevel].y = top0
          /\ fx.size = << AtLeast1(right - left0), AtLeast1(bottom - top0) >>

(* a resize by the bottom-right corner that grew the width and one that   *)
(* was held at 1                                                          *)
C14_Witness ==
  /\ fx.op = "motion"
  /\ cursor_mode = TINYWL_CURSOR_RESIZE
  /\ resize_edges = BottomRight
  /\ grab0.t = grabbed_toplevel
  /\ grabbed_toplevel \in mapped
  /\ fx.size[1] > grab0.geo.width
  /\ fx.size[2] = 1
  /\ ToDouble(grab0.geo.height) + (cursor.y - grab0.cursor.y) < ToDouble(1)

(* C15: after a commit of a toplevel with geometry (gx, gy, gw, gh) the   *)
(* border rects are: top at (gx, gy-2) of size (gw, 2), bottom at         *)
(* (gx, gy+gh) of size (gw, 2), left at (gx-2, gy) of size (2, gh), right *)
(* at (gx+gw, gy) of size (2, gh).                                        *)
C15_BorderAlignment ==
  fx.op = "commit" =>
    LET g == geometry[fx.t]
    IN fx.borders =
         << [ top |-> Box(g.x, g.y - 2, g.width, 2),
              bottom |-> Box(g.x, g.y + g.height, g.width, 2),
              left |-> Box(g.x - 2, g.y, 2, g.height),
              right |-> Box(g.x + g.width, g.y, 2, g.height) ] >>

(* a commit of a mapped toplevel that changed its geometry to one off the *)
(* surface origin                                                         *)
C15_Witness ==
  /\ fx.op = "commit"
  /\ fx.t \in mapped
  /\ geometry[fx.t] = Box(1, 0, 1, 2)

(* C19 (as claimed): whenever cursor_mode is resize, resize_edges has one *)
(* of the top, bottom, left, right bits set; stated here for the resize   *)
(* of a mapped toplevel.                                                  *)
C19_ResizeHasEdge ==
  (cursor_mode = TINYWL_CURSOR_RESIZE /\ grabbed_toplevel \in mapped)
    => resize_edges # {}

(* C16 (as claimed): when a cursor motion event leaves the cursor where   *)
(* the hit test finds no surface, the pointer focus is cleared when the   *)
(* handler returns.                                                       *)
C16_FocusClearedOffSurface ==
  (fx.op = "motion" /\ ~fx.surface) => pointer_focus = NoSurface

(* C16 (amended): ... while cursor_mode is passthrough.                   *)
C16_FocusClearedInPassthrough ==
  (fx.op = "motion" /\ ~fx.surface /\ cursor_mode = TINYWL_CURSOR_PASSTHROUGH)
    => pointer_focus = NoSurface

(* the cursor left the surface that had the pointer focus *)
C16_Witness ==
  /\ fx.op = "motion"
  /\ ~fx.surface
  /\ cursor_mode = TINYWL_CURSOR_PASSTHROUGH
  /\ fx.pfocus0 \in mapped
  /\ pointer_focus = NoSurface

Grabbing == cursor_mode # TINYWL_CURSOR_PASSTHROUGH

(* C17 (as claimed): the cursor mode goes from passthrough to move or     *)
(* resize by begin_interactive and from move or resize to passthrough by  *)
(* a button release or the unmap of the grabbed toplevel; no step takes   *)
(* it between move and resize or changes the grabbed toplevel during a    *)
(* grab (stated for the grab of a mapped toplevel).                       *)
C17_ModeTransitions ==
  [][ /\ (Grabbing /\ Grabbing' /\ grabbed_toplevel \in mapped
            /\ grabbed_toplevel' \in mapped')
           => (cursor_mode' = cursor_mode /\ grabbed_toplevel' = grabbed_toplevel)
      /\ (~Grabbing /\ Grabbing')
           => fx'.op \in {"request_move", "request_resize"}
      /\ (Grabbing /\ ~Grabbing')
           => \/ fx'.op = "button" /\ ~fx'.pressed
              \/ fx'.op = "unmap" /\ fx'.t = grabbed_toplevel ]_vars

(* C18 (as claimed): a set grabbed_toplevel is in server->toplevels and   *)
(* mapped.                                                                *)
C18_GrabbedIsMapped ==
  grabbed_toplevel # NoToplevel
    => (grabbed_toplevel \in Range(toplevels) /\ grabbed_toplevel \in mapped)

(* C20: the close binding sends one SIGTERM to the client of the surface  *)
(* that holds the keyboard focus, none when no surface holds it, and      *)
(* changes neither the toplevel list nor the keyboard focus, the cursor   *)
(* mode, the grab, the scene order or the activated flags.                *)
C20_CloseOnlySignals ==
  [][ (fx'.op = "key" /\ fx'.cacts = << "close_focused_surface" >>)
      => ( /\ fx'.killed = IF focused_surface # NoSurface
                           THEN << focused_surface >> ELSE << >>
           /\ fx'.exec = << >>
           /\ << toplevels', focused_surface', cursor_mode', grabbed_toplevel',
                 scene', activated', mapped', allocated', terminated' >>
                = << toplevels, focused_surface, cursor_mode, grabbed_toplevel,
                     scene, activated, mapped, allocated, terminated >> ) ]_vars

(* the close binding pressed while a mapped toplevel holds the focus,     *)
(* another one is mapped and a grab is in progress                        *)
C20_Witness ==
  /\ fx.op = "key"
  /\ fx.cacts = << "close_focused_surface" >>
  /\ focused_surface \in mapped
  /\ fx.killed = << focused_surface >>
  /\ Len(toplevels) >= 2
  /\ Grabbing

(* the last statement of server_cleanup has run *)
TeardownDone ==
  teardown # << >> /\ Last(teardown) = [op |-> "destroy", arg |-> "display"]

(* C21 (as claimed): when a stage of the initialization fails,            *)
(* server_cleanup runs through and the process exits with a non-zero      *)
(* status; wl_display_run is never entered.                               *)
C21_InitFailureExits ==
  failed_step # NoStep =>
    /\ pc \in {"failed", "exited"}
    /\ pc = "exited" => (exit_status = EXIT_FAILURE /\ TeardownDone)

(* C22: once wl_display_run has returned, server_cleanup first disconnects *)
(* the clients, then unlinks every listener the initialization            *)
(* registered, then destroys the scene, the cursor manager, the cursor,   *)
(* the allocator, the renderer, the backend and the display, in that      *)
(* order; no statement of it is undefined, and exit comes after the last. *)
C22_TeardownOrder ==
  (pc \in {"shutdown", "exited", "crashed"} /\ started /\ failed_step = NoStep) =>
    LET registered == RenderingListeners \cup ShellInputListeners
        n == Cardinality(registered)
        destroyed == << "scene", "cursor_mgr", "cursor", "allocator", "renderer",
                        "backend", "display" >>
    IN /\ pc # "crashed"
       /\ faults = << >>
       /\ Len(teardown) <= n + 8
       /\ \A i \in 1..Len(teardown) :
            IF i = 1 THEN teardown[i].op = "destroy_clients"
            ELSE IF i <= n + 1
            THEN /\ teardown[i].op = "unlink"
                 /\ teardown[i].arg \in registered
                 /\ \A j \in 2..(i - 1) : teardown[j].arg # teardown[i].arg
            ELSE teardown[i] = [op |-> "destroy", arg |-> destroyed[i - n - 1]]
       /\ pc = "exited" => (Len(teardown) = n + 8 /\ listeners = {})

(* a shutdown by MODKEY+Escape with a keyboard attached *)
C22_Witness ==
  /\ pc = "exited"
  /\ started
  /\ exit_status = EXIT_SUCCESS
  /\ terminated
  /\ TeardownDone

(* C23: the startup command is spawned at most once, by the step that     *)
(* has created the socket, started the backend and set WAYLAND_DISPLAY to *)
(* the socket name, and by no step in which a call fails.                 *)
C23_StartupCommandOnce ==
  [][ spawned' # spawned =>
        /\ spawned = 0
        /\ spawned' = 1
        /\ startup_cmd # NoCmd
        /\ socket' # NoSocket
        /\ started'
        /\ wayland_display' = socket'
        /\ failed_step' = NoStep
        /\ pc' = "run" ]_vars

(* the compositor runs and the command of -s has been spawned *)
C23_Witness ==
  /\ spawned = 1
  /\ pc = "run"
  /\ startup_cmd = "cmd"
  /\ wayland_display = "wayland-0"

(* The elements of a command line from argv[i] on, as "s:h" reads them    *)
(* from left to right: an option, the argument of -s, a -s without its    *)
(* argument, an option that is not in "s:h", and an operand (a word that  *)
(* is neither an option nor the argument of one).                         *)
RECURSIVE ArgKinds(_, _)
ArgKinds(args, i) ==
  IF i > Len(args) THEN << >>
  ELSE IF args[i] = "-s" /\ i < Len(args)
  THEN << "option", "argument" >> \o ArgKinds(args, i + 2)
  ELSE IF args[i] = "-s" THEN << "missing" >>
  ELSE IF args[i] = "-h" THEN << "option" >> \o ArgKinds(args, i + 1)
  ELSE IF args[i] = "-x" THEN << "unknown" >> \o ArgKinds(args, i + 1)
  ELSE << "operand" >> \o ArgKinds(args, i + 1)

NothingCreated == objs = [o \in Objects |-> "null"] /\ listeners = {}

(* C24 (as claimed): a command line with an unknown option or with a      *)
(* trailing non-option argument makes process_args report an error and    *)
(* the program exit non-zero without starting the compositor.             *)
C24_BadCommandLineRejected ==
  LET kinds == ArgKinds(argv, 1)
  IN ("unknown" \in Range(kinds) \/ (kinds # << >> /\ Last(kinds) = "operand"))
       => \/ pc = "args"
          \/ /\ pc = "exited"
             /\ exit_status = EXIT_FAILURE
             /\ stdio # NoStdio
             /\ NothingCreated

(* -h is given, alone or with -s <command>, and nothing else *)
HelpGiven ==
  LET kinds == ArgKinds(argv, 1)
  IN /\ Range(kinds) \subseteq {"option", "argument"}
     /\ \E i \in 1..Len(argv) : argv[i] = "-h" /\ kinds[i] = "option"
     /\ \A i \in 1..Len(argv) : kinds[i] = "argument" => argv[i] = "cmd"

(* C25 (as claimed): with -h on the command line, alone or together with  *)
(* a valid -s <command>, the program prints the usage line and exits with *)
(* status 0 without initializing the compositor.                          *)
C25_HelpExitsZero ==
  HelpGiven
    => \/ pc = "args"
       \/ /\ pc = "exited"
          /\ exit_status = EXIT_SUCCESS
          /\ stdio.out = << "usage" >>
          /\ NothingCreated

(* C26 (as claimed): after a key event or a modifiers event of keyboard   *)
(* K the seat's active keyboard is K.                                     *)
C26_ActiveKeyboardFollowsEvents ==
  fx.op \in {"key", "modifiers"} => seat_keyboard = fx.kb

(* C26 (amended): after a modifiers event of keyboard K, and after a key  *)
(* event of K that no binding consumed, the seat's active keyboard is K;  *)
(* a key press that a binding consumed leaves the active keyboard as it   *)
(* was.                                                                   *)
C26_ActiveKeyboardFollowsForwarded ==
  [][ /\ (fx'.op = "modifiers" \/ (fx'.op = "key" /\ fx'.forwarded))
          => seat_keyboard' = fx'.kb
      /\ (fx'.op = "key" /\ ~fx'.forwarded)
          => seat_keyboard' = seat_keyboard ]_vars

(* with two keyboards attached, a forwarded key of the first one and a    *)
(* consumed press of it while the second one is the active keyboard       *)
C26_Witness ==
  /\ fx.op = "key"
  /\ Cardinality(keyboards) = 2
  /\ \/ fx.forwarded /\ seat_keyboard = fx.kb
     \/ ~fx.forwarded /\ seat_keyboard # fx.kb /\ seat_keyboard # NoKeyboard

(* C27: a press of Escape with MODKEY held stops the event loop; then     *)
(* server_cleanup runs through and the process exits with status 0.       *)
C27_EscapeShutsDown ==
  (pc = "run" /\ IsBindingPress /\ "Escape" \in Range(fx.syms))
    ~> (pc = "exited" /\ exit_status = EXIT_SUCCESS /\ TeardownDone /\ faults = << >>)

(* the process has exited after MODKEY+Escape; the keyboard went with the *)
(* backend                                                                *)
C27_Witness ==
  /\ pc = "exited"
  /\ exit_status = EXIT_SUCCESS
  /\ fx.op = "key"
  /\ fx.cacts = << "terminate_display" >>
  /\ fx.kb # NoKeyboard
  /\ keyboards = {}
  /\ objs = [o \in Objects |-> "freed"]

(* C28: a set_cursor request changes the cursor image only when the       *)
(* requesting client is the one whose surface holds the pointer focus;    *)
(* then the image is that client's surface with the requested hotspot.    *)
C28_CursorOnlyFromFocusedClient ==
  [][ fx'.op = "request_set_cursor" =>
        IF pointer_focus # NoSurface /\ fx'.t = pointer_focus
        THEN cursor_image'.client = fx'.t
        ELSE cursor_image' = cursor_image ]_vars

(* a request of a client without the pointer focus while the cursor image *)
(* is the surface of the client that holds it                             *)
C28_Witness ==
  /\ fx.op = "request_set_cursor"
  /\ pointer_focus # NoSurface
  /\ fx.t # pointer_focus
  /\ cursor_image.client = pointer_focus

(* C29: after a button release, whichever button it is and whichever are  *)
(* still down, cursor_mode is passthrough and grabbed_toplevel is NULL.   *)
C29_ReleaseEndsGrab ==
  (fx.op = "button" /\ ~fx.pressed)
    => (cursor_mode = TINYWL_CURSOR_PASSTHROUGH /\ grabbed_toplevel = NoToplevel)

(* a release during an interactive move while another button is down *)
C29_Witness ==
  /\ fx.op = "button"
  /\ ~fx.pressed
  /\ mode0 = TINYWL_CURSOR_MOVE
  /\ held # {}

(* C30 (as claimed): a focus_toplevel(T) that is not a no-op deactivates  *)
(* the toplevel focused before, activates T and leaves T's surface as the *)
(* seat's keyboard-focused surface; so does every map of T.               *)
C30_FocusActivatesAndEnters ==
  /\ \A i \in 1..Len(fx.calls) :
       LET c == fx.calls[i]
       IN (c.arg # NoToplevel /\ c.arg # c.prev)
            => /\ c.act = c.arg
               /\ c.entered = c.arg
               /\ c.prev # NoSurface => c.deact = c.prev
  /\ fx.op = "map" => (fx.t \in activated /\ focused_surface = fx.t)

(* the surface buffer of t, or a border rect of t, lies at the point c *)
OnSurface(t, c) ==
  Contains(SurfaceBox(geometry[t]),
           [x |-> c.x - ToDouble(node[t].x), y |-> c.y - ToDouble(node[t].y)])

OnBorder(t, c) ==
  LET b == CommitBorders(geometry[t])
      local == [x |-> c.x - ToDouble(node[t].x), y |-> c.y - ToDouble(node[t].y)]
  IN \E r \in {b.top, b.bottom, b.left, b.right} : Contains(r, local)

(* the subtree of u is above the one of t in the scene *)
Above(u, t) ==
  \E i, j \in 1..Len(scene) : scene[i] = t /\ scene[j] = u /\ i < j

(* the toplevels whose surface buffer is the topmost node at c: no border *)
(* rect of their own and no node of a higher mapped toplevel covers it    *)
SurfaceOnTop(c) ==
  { t \in mapped :
      /\ OnSurface(t, c)
      /\ ~OnBorder(t, c)
      /\ \A u \in mapped : Above(u, t) => (~OnSurface(u, c) /\ ~OnBorder(u, c)) }

NewEdges ==
  LET geo_box == geometry[grabbed_toplevel]
      new_left == node[grabbed_toplevel].x + geo_box.x
      new_top == node[grabbed_toplevel].y + geo_box.y
  IN [ left |-> new_left, top |-> new_top,
       right |-> new_left + fx.size[1], bottom |-> new_top + fx.size[2] ]

ResizeMotion ==
  fx.op = "motion" /\ cursor_mode = TINYWL_CURSOR_RESIZE /\ fx.size # << >>

(* C32 (as claimed): after a motion in resize mode every edge whose bit   *)
(* is set in resize_edges, in any combination, is at cursor - grab (as an *)
(* int), kept at least 1 from the opposite edge, and every edge whose bit *)
(* is not set is where grab_geobox has it; stated here for the resize of *)
(* a mapped toplevel.                                                     *)
C32_EdgesFollowCursor ==
  (ResizeMotion /\ grabbed_toplevel \in mapped) =>
    LET e == NewEdges
        bx == ToInt(cursor.x - grab_x)
        by == ToInt(cursor.y - grab_y)
    IN /\ IF WLR_EDGE_TOP \in resize_edges
          THEN e.top = IF by >= e.bottom THEN e.bottom - 1 ELSE by
          ELSE e.top = grab_geobox.y
       /\ IF WLR_EDGE_BOTTOM \in resize_edges
          THEN e.bottom = IF by <= e.top THEN e.top + 1 ELSE by
          ELSE e.bottom = grab_geobox.y + grab_geobox.height
       /\ IF WLR_EDGE_LEFT \in resize_edges
          THEN e.left = IF bx >= e.right THEN e.right - 1 ELSE bx
          ELSE e.left = grab_geobox.x
       /\ IF WLR_EDGE_RIGHT \in resize_edges
          THEN e.right = IF bx <= e.left THEN e.left + 1 ELSE bx
          ELSE e.right = grab_geobox.x + grab_geobox.width

(* C32 (amended): on each axis one edge follows the cursor: the top one   *)
(* if its bit is set, else the bottom one if its bit is set; the left one *)
(* if its bit is set, else the right one if its bit is set.  The other    *)
(* edges are where grab_geobox has them.                                  *)
C32_OneEdgePerAxisFollows ==
  ResizeMotion =>
    LET e == NewEdges
        bx == ToInt(cursor.x - grab_x)
        by == ToInt(cursor.y - grab_y)
        top0 == grab_geobox.y
        bottom0 == grab_geobox.y + grab_geobox.height
        left0 == grab_geobox.x
        right0 == grab_geobox.x + grab_geobox.width
    IN /\ IF WLR_EDGE_TOP \in resize_edges
          THEN e.top = (IF by >= bottom0 THEN bottom0 - 1 ELSE by) /\ e.bottom = bottom0
          ELSE IF WLR_EDGE_BOTTOM \in resize_edges
          THEN e.bottom = (IF by <= top0 THEN top0 + 1 ELSE by) /\ e.top = top0
          ELSE e.top = top0 /\ e.bottom = bottom0
       /\ IF WLR_EDGE_LEFT \in resize_edges
          THEN e.left = (IF bx >= right0 THEN right0 - 1 ELSE bx) /\ e.right = right0
          ELSE IF WLR_EDGE_RIGHT \in resize_edges
          THEN e.right = (IF bx <= left0 THEN left0 + 1 ELSE bx) /\ e.left = left0
          ELSE e.left = left0 /\ e.right = right0

(* a resize of a mapped window by all four edges: the top and the left   *)
(* edge went with the cursor, the bottom and the right one stayed        *)
C32_Witness ==
  /\ ResizeMotion
  /\ grabbed_toplevel \in mapped
  /\ resize_edges = {WLR_EDGE_TOP, WLR_EDGE_BOTTOM, WLR_EDGE_LEFT, WLR_EDGE_RIGHT}
  /\ NewEdges.top # grab_geobox.y
  /\ NewEdges.left # grab_geobox.x
  /\ NewEdges.bottom = grab_geobox.y + grab_geobox.height
  /\ NewEdges.right = grab_geobox.x + grab_geobox.width

(* the owners that exist *)
Owners ==
  { [kind |-> "toplevel", id |-> t] : t \in allocated }
  \cup { [kind |-> "keyboard", id |-> kb] : kb \in keyboards }
  \cup { [kind |-> "popup", id |-> q.id] : q \in popups }

ListenerCount(kind) ==
  IF kind = "toplevel" THEN 8 ELSE IF kind = "keyboard" THEN 3 ELSE 2

(* C33: a destroy handler unlinks every listener registered at creation  *)
(* (8 of a toplevel, 3 of a keyboard, 2 of a popup) before it frees the  *)
(* owner: free is its last statement, no listener of the owner is linked *)
(* then, and every linked listener belongs to an owner that exists.      *)
C33_ListenersUnlinkedBeforeFree ==
  /\ \A l \in links : [kind |-> l.kind, id |-> l.id] \in Owners
  /\ \A o \in Owners :
       Cardinality({ l \in links : l.kind = o.kind /\ l.id = o.id })
         = ListenerCount(o.kind)
  /\ last_destroy.kind # "none"
       => /\ last_destroy.dangling = {}
          /\ Last(last_destroy.steps) = "free"
          /\ Cardinality({ i \in 1..Len(last_destroy.steps) :
                             last_destroy.steps[i] \notin {"free", "link"} })
               = ListenerCount(last_destroy.kind)

(* a toplevel was destroyed while another toplevel, a popup of it and a *)
(* keyboard exist with their listeners                                  *)
C33_Witness ==
  /\ last_destroy.kind = "toplevel"
  /\ last_destroy.id \notin allocated
  /\ allocated # {}
  /\ popups # {}
  /\ keyboards # {}
  /\ Cardinality(links) = 8 + 2 + 3

(* C38 (as claimed): no child forked by execute_program or by            *)
(* finalize_startup goes on in the compositor's code: a fork that fails  *)
(* leaves no child, and a child whose execl fails does not come back     *)
(* into the key handler or into main.                                    *)
C38_ChildNeverRunsCompositor ==
  \A c \in children :
    /\ c.fork = "failed" => c.child = "none"
    /\ c.child # "returned"

(* C34 (as claimed): whenever the surface that holds the keyboard focus  *)
(* is the one of a toplevel in server->toplevels, that toplevel is the   *)
(* front of the list.                                                    *)
C34_FocusedIsFront ==
  (focused_surface # NoSurface /\ focused_surface \in Range(toplevels))
    => Front(toplevels) = focused_surface

(* C35 (as claimed): at most one toplevel has its activated flag set. *)
C35_AtMostOneActivated ==
  Cardinality(activated) <= 1

(* C39: the unmap of a toplevel takes it out of server->toplevels and     *)
(* leaves the order of the others; no toplevel is focused, activated or   *)
(* raised by it; the cursor mode and the grab are reset when the unmapped *)
(* toplevel is the grabbed one and left alone otherwise.                  *)
C39_UnmapFrame ==
  [][ fx'.op = "unmap"
      => ( /\ toplevels' = SelectSeq(toplevels, LAMBDA e : e # fx'.t)
           /\ mapped' = mapped \ {fx'.t}
           /\ << focused_surface', activated', scene', allocated', seat_keyboard' >>
                = << focused_surface, activated, scene, allocated, seat_keyboard >>
           /\ IF fx'.t = grabbed_toplevel
              THEN /\ cursor_mode' = TINYWL_CURSOR_PASSTHROUGH
                   /\ grabbed_toplevel' = NoToplevel
              ELSE /\ cursor_mode' = cursor_mode
                   /\ grabbed_toplevel' = grabbed_toplevel ) ]_vars

(* the focused toplevel was unmapped while two others are mapped and one  *)
(* of them is grabbed: the focus is still on it and the grab goes on      *)
C39_Witness ==
  /\ fx.op = "unmap"
  /\ Len(toplevels) = 2
  /\ focused_surface = fx.t
  /\ fx.t \in activated
  /\ seat_keyboard # NoKeyboard
  /\ grabbed_toplevel \in mapped
  /\ cursor_mode # TINYWL_CURSOR_PASSTHROUGH

(* both edges of an axis are in the mask *)
OppositeEdges(edges) ==
  \/ {WLR_EDGE_TOP, WLR_EDGE_BOTTOM} \subseteq edges
  \/ {WLR_EDGE_LEFT, WLR_EDGE_RIGHT} \subseteq edges

(* the motion event that follows a request and leaves the cursor where it is *)
MotionInPlaceAfter(op) ==
  fx.op = op /\ fx'.op = "motion" /\ cursor' = cursor

(* C40 (as claimed): a motion event that follows begin_interactive(T,     *)
(* resize, edges) at once and leaves the cursor where it was requests the *)
(* size of T's geometry and leaves T's scene position, whatever the edges *)
(* are, if the geometry is at least 1 wide and 1 high; after              *)
(* begin_interactive(T, move) it leaves T's scene position.               *)
C40_GrabThenStillMotion ==
  [][ /\ (MotionInPlaceAfter("request_resize")
            /\ geometry[fx.t].width >= 1 /\ geometry[fx.t].height >= 1)
           => /\ fx'.size = << geometry[fx.t].width, geometry[fx.t].height >>
              /\ node'[fx.t] = node[fx.t]
      /\ MotionInPlaceAfter("request_move") => node'[fx.t] = node[fx.t] ]_vars

(* C40 (amended): ... for every edges mask that does not hold both edges  *)
(* of an axis.                                                            *)
C40_GrabThenStillMotionOneEdgePerAxis ==
  [][ /\ (MotionInPlaceAfter("request_resize") /\ ~OppositeEdges(resize_edges)
            /\ geometry[fx.t].width >= 1 /\ geometry[fx.t].height >= 1)
           => /\ fx'.size = << geometry[fx.t].width, geometry[fx.t].height >>
              /\ node'[fx.t] = node[fx.t]
      /\ MotionInPlaceAfter("request_move") => node'[fx.t] = node[fx.t] ]_vars

(* a resize by the bottom-right corner of a mapped window 2 wide, begun  *)
(* with the cursor off the origin: the motion that left the cursor there *)
(* asked for the size the window had                                     *)
C40_Witness ==
  /\ fx.op = "motion"
  /\ cursor_mode = TINYWL_CURSOR_RESIZE
  /\ grabbed_toplevel \in mapped
  /\ grab0.t = grabbed_toplevel
  /\ grab0.cursor = cursor
  /\ cursor.x # 0
  /\ resize_edges = {WLR_EDGE_RIGHT, WLR_EDGE_BOTTOM}
  /\ geometry[grabbed_toplevel] = grab0.geo
  /\ fx.size = << 2, 1 >>
  /\ node[grabbed_toplevel] = grab0.origin

(* ---------------- the grab specification ---------------- *)
(* windows come, are mapped, grabbed, unmapped and destroyed while the     *)
(* pointer moves and its button is released; the event loop runs until an  *)
(* undefined step kills the process                                        *)
NextGrab ==
  \/ \E t \in Toplevels :
        /\ pc = "run" /\ Cardinality(allocated) < GrabWorldToplevels
        /\ server_new_xdg_toplevel(t) /\ Still
  \/ \E t \in Toplevels : pc = "run" /\ xdg_toplevel_map(t) /\ Still
  \/ \E t \in Toplevels : pc = "run" /\ xdg_toplevel_unmap(t) /\ Still
  \/ \E t \in Toplevels : pc = "run" /\ xdg_toplevel_destroy(t) /\ Still
  \/ \E t \in Toplevels : pc = "run" /\ xdg_toplevel_request_move(t) /\ Still
  \/ \E t \in Toplevels : pc = "run" /\ xdg_toplevel_request_resize(t) /\ Still
  \/ pc = "run" /\ server_cursor_button(FALSE, NoToplevel) /\ Still
  \/ pc = "run" /\ server_cursor_motion /\ Still
  \/ \E crash \in BOOLEAN : server_cursor_motion_freed_grab(crash)

SpecGrab == Init /\ [][NextGrab]_vars

(* C36 (as claimed): grabbed_toplevel never refers to a toplevel that was *)
(* destroyed, and no cursor motion operates on a freed toplevel or kills  *)
(* the process.                                                           *)
C36_GrabNeverDangles ==
  /\ grabbed_toplevel # NoToplevel => grabbed_toplevel \in allocated
  /\ \A i \in 1..Len(faults) : faults[i].step # GrabDeref
  /\ pc # "crashed"

(* C37 (as claimed): after a failed initialization stage the teardown     *)
(* executes no undefined statement: it unlinks no listener that was never *)
(* registered and neither uses nor destroys an object that was never      *)
(* created or was destroyed before, so the backend and the display are    *)
(* destroyed at most once.                                                *)
C37_FailureTeardownDefined ==
  failed_step # NoStep =>
    \A i \in 1..Len(faults) : faults[i].step.op \notin {"unlink", "destroy"}

====
